---- MODULE Spec2Model ----
\* Token lifecycle of the cookbook extension: the encrypted token store
\* (token-storage.js, found in src/main.js:260-663), the background token
\* manager (src/token-manager.js) and the auth session controller
\* (src/google-auth.js), run as asynchronous handlers in a background and a
\* foreground context that share only chrome.storage.local and messages.
EXTENDS Integers, Sequences, FiniteSets, TLC

VARIABLES
    store,          \* chrome.storage.local: the credential record
    now,            \* Date.now(), in milliseconds
    tasks,          \* the asynchronous calls in progress, with their call stacks
    started,        \* number of top-level calls begun so far
    ENCRYPTION_KEY, \* per context: the key the token-storage module loaded
    currentUser,    \* google-auth.js module state of the foreground context
    authListeners,  \* google-auth.js subscriber list (sequence of listener ids)
    heard,          \* per listener: how often it was called and with what last
    msgs,           \* runtime messages sent by the background, not yet delivered
    alarms,         \* chrome.alarms: name -> due time (NoAlarm when not set)
    windowCheck,    \* a scheduled check ran inside the stored token's window
    codec,          \* one encryptData / decryptData round trip (the codec alone)
    popup           \* the popup page: its elements and its processContent run

vars == <<store, now, tasks, started, ENCRYPTION_KEY, currentUser,
          authListeners, heard, msgs, alarms, windowCheck, codec, popup>>

-----------------------------------------------------------------------------
\* Bounds of the model.

MaxTasks == 2
MaxStarts == 2
MaxNow == 1001
MaxSubMs == 1
MaxListeners == 1
MaxMinutes == 61
MaxSubscribers == 2
MaxCalls == 3


\* Program constants.

REFRESH_THRESHOLD == 5 * 60
TOKEN_CHECK_INTERVAL == 15
SIM_DELAY == 1000
SIM_EXPIRES_IN == 3600
THE_KEY == 1
MS_PER_MINUTE == 60 * 1000

\* The lifetimes (expires_in, seconds) a sign-in's token response may declare.
ExpiresInValues == {SIM_EXPIRES_IN - 1, SIM_EXPIRES_IN}

\* The lifetimes (seconds, positive) a direct caller of storeAuthTokens gives.
SaveExpiresIn == {1, 2, SIM_EXPIRES_IN}

Contexts == {"bg", "fg"}
TaskIds == 1 .. MaxTasks
Listeners == 1 .. MaxListeners

-----------------------------------------------------------------------------
\* Values: plaintexts, ciphertexts, the stored record.

NoVal == [kind |-> "none", n |-> 0]
NoCt == [pt |-> NoVal, iv |-> 0, key |-> 0]
NoExp == -1
NoIv == 0
NoAlarm == -1
MaxTextLen == 2

EmptyStore ==
    [access |-> NoCt, refresh |-> NoCt, idt |-> NoCt, user |-> NoCt,
     exp |-> NoExp, iv |-> NoIv]

Ok(v) == [ok |-> TRUE, v |-> v, e |-> ""]
Err(e) == [ok |-> FALSE, v |-> NoVal, e |-> e]
NoRet == Ok(NoVal)

True == [kind |-> "bool", n |-> 1]
False == [kind |-> "bool", n |-> 0]

Max(a, b) == IF a > b THEN a ELSE b

\* AES-GCM under a key and an iv: the ciphertext opens only under both.
encryptData(data, iv, key) == [pt |-> data, iv |-> iv, key |-> key]

CanDecrypt(ct, iv, key) == key # 0 /\ ct.key = key /\ ct.iv = iv

decryptData(ct, iv, key) == IF CanDecrypt(ct, iv, key) THEN Ok(ct.pt) ELSE Err("OperationError")

\* ---- The codec on text and bytes (encryptData and decryptData alone). ----

\* A JavaScript string is a sequence of UTF-16 code units. The plaintexts
\* are made of 'A', 'e' with acute accent, the byte order mark U+FEFF, a
\* high and a low surrogate (together U+1F600), and the replacement
\* character U+FFFD.
BOM == 65279
REPLACEMENT == 65533
CodeUnits == {65, 233, BOM, 55357, 56832, REPLACEMENT}
Texts == UNION {[1 .. n -> CodeUnits] : n \in 0 .. MaxTextLen}

IsHighSurrogate(u) == u \in 55296 .. 56319
IsLowSurrogate(u) == u \in 56320 .. 57343

\* The scalar values of a string as TextEncoder reads it: a surrogate pair
\* is one code point, a surrogate without its partner is U+FFFD.
RECURSIVE ToScalarValues(_)
ToScalarValues(s) ==
    IF s = <<>> THEN <<>>
    ELSE IF IsHighSurrogate(s[1]) /\ Len(s) >= 2 /\ IsLowSurrogate(s[2])
    THEN <<65536 + ((s[1] - 55296) * 1024) + (s[2] - 56320)>>
             \o ToScalarValues(SubSeq(s, 3, Len(s)))
    ELSE IF IsHighSurrogate(s[1]) \/ IsLowSurrogate(s[1])
    THEN <<REPLACEMENT>> \o ToScalarValues(Tail(s))
    ELSE <<s[1]>> \o ToScalarValues(Tail(s))

\* The UTF-8 bytes of one code point.
Utf8(cp) ==
    IF cp < 128 THEN <<cp>>
    ELSE IF cp < 2048 THEN <<192 + (cp \div 64), 128 + (cp % 64)>>
    ELSE IF cp < 65536
    THEN <<224 + (cp \div 4096), 128 + ((cp \div 64) % 64), 128 + (cp % 64)>>
    ELSE <<240 + (cp \div 262144), 128 + ((cp \div 4096) % 64),
           128 + ((cp \div 64) % 64), 128 + (cp % 64)>>

RECURSIVE Utf8All(_)
Utf8All(cps) == IF cps = <<>> THEN <<>> ELSE Utf8(cps[1]) \o Utf8All(Tail(cps))

\* new TextEncoder().encode(data)
TextEncoder_encode(data) == Utf8All(ToScalarValues(data))

IsContinuation(b) == b \in 128 .. 191

\* The code points of a byte sequence; a byte that starts no well-formed
\* sequence is U+FFFD.
RECURSIVE Utf8Decode(_)
Utf8Decode(b) ==
    IF b = <<>> THEN <<>>
    ELSE IF b[1] < 128 THEN <<b[1]>> \o Utf8Decode(Tail(b))
    ELSE IF b[1] \in 192 .. 223 /\ Len(b) >= 2 /\ IsContinuation(b[2])
    THEN <<((b[1] - 192) * 64) + (b[2] - 128)>> \o Utf8Decode(SubSeq(b, 3, Len(b)))
    ELSE IF /\ b[1] \in 224 .. 239 /\ Len(b) >= 3
            /\ IsContinuation(b[2]) /\ IsContinuation(b[3])
    THEN <<((b[1] - 224) * 4096) + ((b[2] - 128) * 64) + (b[3] - 128)>>
             \o Utf8Decode(SubSeq(b, 4, Len(b)))
    ELSE IF /\ b[1] \in 240 .. 247 /\ Len(b) >= 4
            /\ IsContinuation(b[2]) /\ IsContinuation(b[3]) /\ IsContinuation(b[4])
    THEN <<((b[1] - 240) * 262144) + ((b[2] - 128) * 4096)
              + ((b[3] - 128) * 64) + (b[4] - 128)>>
             \o Utf8Decode(SubSeq(b, 5, Len(b)))
    ELSE <<REPLACEMENT>> \o Utf8Decode(Tail(b))

\* The UTF-16 code units of a sequence of code points.
RECURSIVE ToCodeUnits(_)
ToCodeUnits(cps) ==
    IF cps = <<>> THEN <<>>
    ELSE IF cps[1] >= 65536
    THEN <<55296 + ((cps[1] - 65536) \div 1024), 56320 + ((cps[1] - 65536) % 1024)>>
             \o ToCodeUnits(Tail(cps))
    ELSE <<cps[1]>> \o ToCodeUnits(Tail(cps))

\* new TextDecoder().decode(buffer): ignoreBOM is false by default, so a
\* byte order mark at the front of the buffer is not part of the text.
TextDecoder_decode(buffer) ==
    LET cps == Utf8Decode(buffer) IN
    ToCodeUnits(IF cps # <<>> /\ cps[1] = BOM THEN Tail(cps) ELSE cps)

\* btoa over the characters String.fromCharCode made of the bytes: the
\* base64 digits (0 .. 63) of each group of three bytes, padded with '='.
PAD == 64

RECURSIVE arrayBufferToBase64(_)
arrayBufferToBase64(buffer) ==
    IF buffer = <<>> THEN <<>>
    ELSE IF Len(buffer) = 1
    THEN <<buffer[1] \div 4, (buffer[1] % 4) * 16, PAD, PAD>>
    ELSE IF Len(buffer) = 2
    THEN <<buffer[1] \div 4, ((buffer[1] % 4) * 16) + (buffer[2] \div 16),
           (buffer[2] % 16) * 4, PAD>>
    ELSE <<buffer[1] \div 4, ((buffer[1] % 4) * 16) + (buffer[2] \div 16),
           ((buffer[2] % 16) * 4) + (buffer[3] \div 64), buffer[3] % 64>>
             \o arrayBufferToBase64(SubSeq(buffer, 4, Len(buffer)))

\* atob, then charCodeAt of each character: the bytes of each group of four
\* base64 digits.
RECURSIVE base64ToArrayBuffer(_)
base64ToArrayBuffer(base64) ==
    IF Len(base64) < 4 THEN <<>>
    ELSE LET c == base64
             first == (c[1] * 4) + (c[2] \div 16)
             second == ((c[2] % 16) * 16) + (c[3] \div 4)
             third == ((c[3] % 4) * 64) + c[4]
         IN  IF c[3] = PAD THEN <<first>>
             ELSE IF c[4] = PAD THEN <<first, second>>
             ELSE <<first, second, third>> \o base64ToArrayBuffer(SubSeq(c, 5, Len(c)))

\* crypto.subtle's AES-GCM, which is the platform's: a mask over the bytes
\* that depends on the key, the iv and the position, followed by a tag that
\* verifies only under the key and the iv that made it.
CodecKeys == {THE_KEY, THE_KEY + 1}
CodecIvs == {1, 2}
Mask(key, iv, i) == ((key * 31) + (iv * 17) + i) % 256
Tag(key, iv) == <<key, iv>>

subtle_encrypt(key, iv, dataBuffer) ==
    [i \in 1 .. Len(dataBuffer) |-> (dataBuffer[i] + Mask(key, iv, i)) % 256]
        \o Tag(key, iv)

subtle_decrypt(key, iv, encryptedBuffer) ==
    LET n == Len(encryptedBuffer) - Len(Tag(key, iv)) IN
    IF n < 0 \/ SubSeq(encryptedBuffer, n + 1, Len(encryptedBuffer)) # Tag(key, iv)
    THEN Err("OperationError")
    ELSE Ok([i \in 1 .. n |-> (encryptedBuffer[i] + 256 - Mask(key, iv, i)) % 256])

\* encryptData(data, iv) under the key of its module.
encryptDataText(data, iv, key) ==
    arrayBufferToBase64(subtle_encrypt(key, iv, TextEncoder_encode(data)))

\* decryptData(encryptedData, iv) under the key of its module: what
\* crypto.subtle.decrypt throws is thrown on.
decryptDataText(encryptedData, iv, key) ==
    LET opened == subtle_decrypt(key, iv, base64ToArrayBuffer(encryptedData)) IN
    IF opened.ok THEN Ok(TextDecoder_decode(opened.v)) ELSE opened

\* ---- The popup page (extension-functions.js and the popup script). ----

\* The display of the elements showResult and showError touch, the text of
\* the error element and the children of the result-content element. A
\* message is a sequence of the pieces its template string joins.
NoDom ==
    [status |-> "none", result |-> "none", error |-> "none", retry |-> "none",
     errorText |-> <<>>, resultContent |-> <<>>]

\* formatJson(obj): the element built for a value.
formatJson(obj) == [tag |-> "div", of |-> obj]

\* showResult leaving the error element as it is.
showResult_KeepError(dom, data) ==
    [dom EXCEPT !.status = "none", !.result = "block",
                !.resultContent = <<formatJson(data)>>]

showResult(dom, data) ==
    [dom EXCEPT !.status = "none", !.error = "none", !.result = "block",
                !.resultContent = <<formatJson(data)>>]

showError(dom, message) ==
    [dom EXCEPT !.status = "none", !.result = "none",
                !.errorText = <<"Error: ">> \o message,
                !.error = "block", !.retry = "block"]

\* What the relay answers to 'makeApiCall': nothing at all (the worker went
\* away and the callback runs without an argument), success:false with the
\* message of the fetch error, or success:true with the status and the body
\* of the reply.
RecipeJson == "{\"recipe\":\"Test Recipe\"}"
Bodies == {RecipeJson, "null", "{invalid json", "Bad Request", ""}
Statuses == {200, 400, 401, 403}
RelayErrors == {"", "Failed to fetch", "authentication required"}
Responses ==
    {[kind |-> "undefined", error |-> "", status |-> 0, body |-> ""]}
    \cup {[kind |-> "failure", error |-> e, status |-> 0, body |-> ""] : e \in RelayErrors}
    \cup {[kind |-> "data", error |-> "", status |-> s, body |-> b] :
              s \in Statuses, b \in Bodies}

\* error.includes("authentication")
IncludesAuthentication(error) == error = "authentication required"

\* JSON.parse(body)
JSON_parse(body) ==
    IF body = RecipeJson THEN Ok([recipe |-> "Test Recipe"])
    ELSE IF body = "null" THEN Ok(NoVal)
    ELSE Err("SyntaxError")

\* processContent from the reply of the relay to the end of its try block,
\* taking the body of every 200 reply as it is.
HandleResponse_NoParse(response) ==
    IF response.kind = "undefined"
    THEN [ok |-> FALSE, v |-> NoVal, logged |-> 0, message |-> <<"TypeError">>]
    ELSE IF response.kind = "failure"
    THEN [ok |-> FALSE, v |-> NoVal, logged |-> 0,
          message |-> IF response.error # "" /\ IncludesAuthentication(response.error)
                      THEN <<"Authentication error. Please sign in again.">>
                      ELSE IF response.error # "" THEN <<response.error>>
                      ELSE <<"Recipe request failed">>]
    ELSE IF response.status = 401 \/ response.status = 403
    THEN [ok |-> FALSE, v |-> NoVal, logged |-> 0,
          message |-> <<"Authentication error. Please sign in again.">>]
    ELSE IF response.status # 200
    THEN [ok |-> FALSE, v |-> NoVal, logged |-> 0,
          message |-> <<"API request failed (", ToString(response.status), "): ",
                        IF response.body # "" THEN response.body ELSE "Unknown error">>]
    ELSE [ok |-> TRUE, v |-> response.body, logged |-> 0, message |-> <<>>]

\* processContent from the reply of the relay to the end of its try block:
\* the value showResult is called with, or the message of the error thrown
\* and the number of console.error calls made before it was thrown.
HandleResponse(response) ==
    IF response.kind = "undefined"
    THEN [ok |-> FALSE, v |-> NoVal, logged |-> 0, message |-> <<"TypeError">>]
    ELSE IF response.kind = "failure"
    THEN [ok |-> FALSE, v |-> NoVal, logged |-> 0,
          message |-> IF response.error # "" /\ IncludesAuthentication(response.error)
                      THEN <<"Authentication error. Please sign in again.">>
                      ELSE IF response.error # "" THEN <<response.error>>
                      ELSE <<"Recipe request failed">>]
    ELSE IF response.status = 401 \/ response.status = 403
    THEN [ok |-> FALSE, v |-> NoVal, logged |-> 0,
          message |-> <<"Authentication error. Please sign in again.">>]
    ELSE IF response.status # 200
    THEN [ok |-> FALSE, v |-> NoVal, logged |-> 0,
          message |-> <<"API request failed (", ToString(response.status), "): ",
                        IF response.body # "" THEN response.body ELSE "Unknown error">>]
    ELSE IF ~JSON_parse(response.body).ok
    THEN [ok |-> FALSE, v |-> NoVal, logged |-> 1, message |-> <<"Invalid response format">>]
    ELSE [ok |-> TRUE, v |-> JSON_parse(response.body).v, logged |-> 0, message |-> <<>>]

\* One run of processContent: the messages it sent, its console.error calls,
\* its calls of showResult and showError, the reply it got and how its
\* promise settled.
NoResponse == [kind |-> "none", error |-> "", status |-> 0, body |-> ""]
NoRun ==
    [sendMessage |-> 0, consoleError |-> 0, showResult |-> 0, showError |-> 0,
     response |-> NoResponse, settled |-> "pending"]

\* The last call of showResult or showError since the page was last reset.
NoCall == [fn |-> "none", arg |-> <<>>]

NoPopup == [pc |-> "idle", dom |-> NoDom, run |-> NoRun, last |-> NoCall]

SessionExpired == <<"Your session has expired. Please sign in again.">>

ShowErrorCall(p, message) ==
    [p EXCEPT !.dom = showError(p.dom, message),
              !.last = [fn |-> "showError", arg |-> message]]

NoCodec ==
    [pc |-> "idle", data |-> <<>>, iv |-> 0, key |-> 0, encryptedData |-> <<>>,
     decryptIv |-> 0, decryptKey |-> 0, out |-> NoRet]

\* storeAuthTokens adding the lifetime to the clock without converting it
\* to milliseconds.
StorageData_Seconds(accessToken, refreshToken, idToken, userData, expiresIn, iv, t) ==
    [access |-> accessToken, refresh |-> refreshToken, idt |-> idToken,
     user |-> userData, exp |-> t + expiresIn, iv |-> iv]

\* The storageData object storeAuthTokens builds: the optional tokens are
\* left out (NoVal here) when they are falsy.
StorageData(accessToken, refreshToken, idToken, userData, expiresIn, iv, t) ==
    [access |-> accessToken, refresh |-> refreshToken, idt |-> idToken,
     user |-> userData, exp |-> t + (expiresIn * 1000), iv |-> iv]

NoPend == [data |-> StorageData(NoVal, NoVal, NoVal, NoVal, 0, NoIv, 0),
           began |-> 0, expiresIn |-> 0, on |-> FALSE]

\* chrome.storage.local.set(storageData): the keys given are replaced, the
\* keys not given are left as they are.
StorageSet(s, d, key) ==
    [access |-> encryptData(d.access, d.iv, key),
     refresh |-> IF d.refresh # NoVal THEN encryptData(d.refresh, d.iv, key) ELSE s.refresh,
     idt |-> IF d.idt # NoVal THEN encryptData(d.idt, d.iv, key) ELSE s.idt,
     user |-> encryptData(d.user, d.iv, key),
     exp |-> d.exp,
     iv |-> d.iv]

hasValidToken(s, t) == s.access # NoCt /\ s.exp # NoExp /\ t < s.exp

\* getTokenTimeRemaining answering in milliseconds.
getTokenTimeRemaining_Ms(s, t) ==
    IF s.exp = NoExp \/ s.exp = 0 THEN 0 ELSE Max(0, s.exp - t)

getTokenTimeRemaining(s, t) ==
    IF s.exp = NoExp \/ s.exp = 0 THEN 0 ELSE Max(0, (s.exp - t) \div 1000)

\* clearAuthData removing the expiration only.
clearAuthData_ExpiryOnly(s) == [s EXCEPT !.exp = NoExp]

clearAuthData(s) == EmptyStore

\* getUserData letting the error of decryptData through.
getUserData_Throws(s, key) ==
    IF s.user = NoCt THEN NoVal
    ELSE IF CanDecrypt(s.user, s.iv, key) THEN s.user.pt ELSE Err("OperationError")

getUserData(s, key) ==
    IF s.user = NoCt THEN NoVal
    ELSE IF CanDecrypt(s.user, s.iv, key) THEN s.user.pt ELSE NoVal

-----------------------------------------------------------------------------
\* Tasks: one per asynchronous top-level call, with the stack of the async
\* functions it is inside. A frame's pc names the await it is suspended at.

Frame(fn, pc) == [fn |-> fn, pc |-> pc]

IdleTask ==
    [op |-> "idle", ctx |-> "fg", stack |-> <<>>, ret |-> NoRet,
     rt |-> NoVal, t0 |-> -1, pend |-> NoPend, tok |-> NoVal,
     user |-> NoVal]

NewTask(op, ctx, stack) == [IdleTask EXCEPT !.op = op, !.ctx = ctx, !.stack = stack]

Running(tk) == tk.stack # <<>>
Top(tk) == tk.stack[Len(tk.stack)]
At(tk, fn, pc) == Running(tk) /\ Top(tk).fn = fn /\ Top(tk).pc = pc
Inside(tk, fn) == \E i \in 1 .. Len(tk.stack) : tk.stack[i].fn = fn

\* The call is awaiting the answer of the refresh endpoint.
ExchangeInFlight(tk) == At(tk, "refreshAccessToken", "exchange")

SetPc(tk, pc) == [tk EXCEPT !.stack[Len(tk.stack)].pc = pc]
Call(tk, contPc, fn, pc) == [SetPc(tk, contPc) EXCEPT !.stack = Append(@, Frame(fn, pc))]
Return(tk, r) == [tk EXCEPT !.stack = SubSeq(@, 1, Len(@) - 1), !.ret = r]

\* The frames at which a call resumes synchronously once its callee has
\* returned: no other event is handled before they run.
Continuations ==
    { <<"getAuthToken", "after">>, <<"getAccessToken", "refreshed">>,
      <<"refreshAccessToken", "stored">>, <<"signOut", "gotToken">>,
      <<"signInWithGoogle", "stored">>, <<"signInWithGoogle", "scheduled">>,
      <<"setupTokenRefresh", "refreshed">>, <<"loadAuthState", "scheduled">>,
      <<"loadAuthState", "refreshed">>, <<"checkAndRefreshToken", "refreshed">>,
      <<"initializeTokenManager", "checked">>, <<"requestTokenRefresh", "refreshed">>,
      <<"initTokenManagement", "done">>, <<"processContent", "token">> }

Resuming(tk) == Running(tk) /\ <<Top(tk).fn, Top(tk).pc>> \in Continuations

\* A call that has returned to its caller outside the model: its result is
\* handed over before any other event is handled.
Finished(tk) == tk.op # "idle" /\ ~Running(tk)

Busy == \E t \in TaskIds : Resuming(tasks[t]) \/ Finished(tasks[t])

FreeSlot(t) == tasks[t] = IdleTask /\ \A u \in TaskIds : (u < t) => tasks[u] # IdleTask

-----------------------------------------------------------------------------
\* A record an earlier session saved (storeAuthTokens after a sign-in), still
\* in storage when the contexts start: one whose expiry is the present
\* instant (not valid any more, past its expiry from the next millisecond
\* on), with or without a refresh token, or one a second from its expiry.
SavedRecord(withRefresh, exp) ==
    StorageSet(EmptyStore,
               [access |-> [kind |-> "access_token", n |-> 0],
                refresh |-> IF withRefresh THEN [kind |-> "refresh_token", n |-> 0] ELSE NoVal,
                idt |-> NoVal,
                user |-> [kind |-> "user", n |-> 0],
                exp |-> exp, iv |-> 1],
               THE_KEY)

InitStores ==
    {EmptyStore, SavedRecord(TRUE, 0), SavedRecord(FALSE, 0), SavedRecord(TRUE, SIM_DELAY)}

Init ==
    /\ now = 0
    /\ store \in InitStores
    /\ tasks = [t \in TaskIds |-> IdleTask]
    /\ started = 0
    /\ ENCRYPTION_KEY = [c \in Contexts |-> THE_KEY]
    /\ currentUser = NoVal
    /\ authListeners = <<>>
    /\ heard = [l \in Listeners |-> [n |-> 0, last |-> NoVal]]
    /\ msgs = {}
    /\ alarms = [a \in {"token-refresh-alarm", "manual-token-refresh"} |-> NoAlarm]
    /\ windowCheck = FALSE
    /\ codec = NoCodec
    /\ popup = NoPopup

\* What each group of actions leaves alone.
session == <<currentUser, authListeners, heard>>
ambient == <<ENCRYPTION_KEY, msgs, alarms, codec, popup>>

Spawn(t, op, ctx, stack) ==
    /\ ~Busy
    /\ started < MaxStarts
    /\ FreeSlot(t)
    /\ tasks' = [tasks EXCEPT ![t] = NewTask(op, ctx, stack)]
    /\ started' = started + 1

-----------------------------------------------------------------------------
\* token-storage.js

\* getAccessToken refreshing whenever a token is stored, valid or not.
GetAccessTokenRead_AlwaysRefresh(t) ==
    LET tk == tasks[t] IN
    /\ ~Busy
    /\ At(tk, "getAccessToken", "read")
    /\ tasks' = [tasks EXCEPT ![t] =
          IF store.access = NoCt
          THEN Return(tk, Err("No access token found"))
          ELSE Call(tk, "refreshed", "refreshAccessToken", "read")]
    /\ UNCHANGED <<store, now, started, session, ambient, windowCheck>>

\* getAccessToken, up to its first await and through the storage read: the
\* token is missing, or expired (a refresh is awaited), or decrypted and
\* returned.
GetAccessTokenRead(t) ==
    LET tk == tasks[t] IN
    /\ ~Busy
    /\ At(tk, "getAccessToken", "read")
    /\ tasks' = [tasks EXCEPT ![t] =
          IF store.access = NoCt
          THEN Return(tk, Err("No access token found"))
          ELSE IF store.exp # NoExp /\ now > store.exp
          THEN Call(tk, "refreshed", "refreshAccessToken", "read")
          ELSE Return(tk, decryptData(store.access, store.iv, ENCRYPTION_KEY[tk.ctx]))]
    /\ UNCHANGED <<store, now, started, session, ambient, windowCheck>>

\* getAccessToken after refreshAccessToken has returned.
GetAccessTokenRefreshed(t) ==
    LET tk == tasks[t] IN
    /\ At(tk, "getAccessToken", "refreshed")
    /\ tasks' = [tasks EXCEPT ![t] =
          IF tk.ret.v # NoVal
          THEN Return(tk, Ok(tk.ret.v))
          ELSE Return(tk, Err("Token expired and refresh failed"))]
    /\ UNCHANGED <<store, now, started, session, ambient, windowCheck>>

\* refreshAccessToken: read and decrypt the refresh token, then issue the
\* exchange (simulateTokenRefresh starts its timer).
RefreshRead(t) ==
    LET tk == tasks[t] IN
    /\ ~Busy
    /\ At(tk, "refreshAccessToken", "read")
    /\ IF store.refresh # NoCt /\ CanDecrypt(store.refresh, store.iv, ENCRYPTION_KEY[tk.ctx])
       THEN /\ tasks' = [tasks EXCEPT ![t] =
                  [SetPc(tk, "exchange") EXCEPT !.rt = store.refresh.pt, !.t0 = now]]
       ELSE /\ tasks' = [tasks EXCEPT ![t] = Return(tk, Ok(NoVal))]
    /\ UNCHANGED <<store, now, started, session, ambient, windowCheck>>

\* The response of simulateTokenRefresh when it succeeds at time t.
SimResponse(t) ==
    [accessToken |-> [kind |-> "new_access_token", n |-> t],
     refreshToken |-> [kind |-> "new_refresh_token", n |-> t],
     idToken |-> [kind |-> "new_id_token", n |-> t],
     expiresIn |-> SIM_EXPIRES_IN,
     userData |-> [kind |-> "user", n |-> 123]]

\* crypto.getRandomValues(new Uint8Array(12)): a fresh 96-bit value, which
\* differs from the iv the record in storage was written with.
FreshIv(cur) == IF cur = 1 THEN 2 ELSE 1

\* storeAuthTokens up to its first await: the iv is drawn and the expiry
\* computed from the clock at the call.
PendingSave(accessToken, refreshToken, idToken, userData, expiresIn) ==
    [data |-> StorageData(accessToken, refreshToken, idToken,
                          userData, expiresIn, FreshIv(store.iv), now),
     began |-> now, expiresIn |-> expiresIn, on |-> TRUE]

BeginStore(tk, contPc, accessToken, refreshToken, idToken, userData, expiresIn) ==
    [Call(tk, contPc, "storeAuthTokens", "set") EXCEPT
        !.pend = PendingSave(accessToken, refreshToken, idToken, userData, expiresIn)]

\* The exchange answering, with the refresh token it was made with saved
\* again whatever the response carries.
RefreshExchange_KeepOld(t) ==
    LET tk == tasks[t] IN
    /\ ~Busy
    /\ At(tk, "refreshAccessToken", "exchange")
    /\ now >= tk.t0 + SIM_DELAY
    /\ \E success \in BOOLEAN :
          LET r == SimResponse(now)
              done == [tk EXCEPT !.rt = NoVal, !.t0 = -1] IN
          tasks' = [tasks EXCEPT ![t] =
              IF success
              THEN BeginStore(done, "stored", r.accessToken, tk.rt,
                              r.idToken, r.userData, r.expiresIn)
              ELSE Return(done, Ok(NoVal))]
    /\ UNCHANGED <<store, now, started, session, ambient, windowCheck>>

\* The exchange answers, SIM_DELAY after it was issued: on success
\* storeAuthTokens is called, on failure null is returned.
RefreshExchange(t) ==
    LET tk == tasks[t] IN
    /\ ~Busy
    /\ At(tk, "refreshAccessToken", "exchange")
    /\ now >= tk.t0 + SIM_DELAY
    /\ \E success \in BOOLEAN :
          LET r == SimResponse(now)
              done == [tk EXCEPT !.rt = NoVal, !.t0 = -1] IN
          tasks' = [tasks EXCEPT ![t] =
              IF success
              THEN BeginStore(done, "stored", r.accessToken,
                              IF r.refreshToken # NoVal THEN r.refreshToken ELSE tk.rt,
                              r.idToken, r.userData, r.expiresIn)
              ELSE Return(done, Ok(NoVal))]
    /\ UNCHANGED <<store, now, started, session, ambient, windowCheck>>

\* storeAuthTokens writing the record and then throwing.
StoreAuthTokensSet_WriteThenThrow(t) ==
    LET tk == tasks[t]
        key == ENCRYPTION_KEY[tk.ctx] IN
    /\ ~Busy
    /\ At(tk, "storeAuthTokens", "set")
    /\ store' = StorageSet(store, tk.pend.data, THE_KEY)
    /\ tasks' = [tasks EXCEPT ![t] =
          Return(tk, IF key = 0 THEN Err("TypeError") ELSE Ok(NoVal))]
    /\ windowCheck' = FALSE
    /\ UNCHANGED <<now, started, session, ambient>>

\* storeAuthTokens: the fields are encrypted and chrome.storage.local.set
\* completes.
StoreAuthTokensSet(t) ==
    LET tk == tasks[t]
        key == ENCRYPTION_KEY[tk.ctx] IN
    /\ ~Busy
    /\ At(tk, "storeAuthTokens", "set")
    /\ IF key = 0
       THEN /\ tasks' = [tasks EXCEPT ![t] = Return(tk, Err("TypeError"))]
            /\ UNCHANGED <<store, windowCheck>>
       ELSE /\ store' = StorageSet(store, tk.pend.data, key)
            /\ tasks' = [tasks EXCEPT ![t] = Return(tk, Ok(NoVal))]
            /\ windowCheck' = FALSE
    /\ UNCHANGED <<now, started, session, ambient>>

\* refreshAccessToken after storeAuthTokens: the new access token is
\* returned, or null when the store threw.
RefreshStored(t) ==
    LET tk == tasks[t]
        done == [tk EXCEPT !.pend = NoPend] IN
    /\ At(tk, "refreshAccessToken", "stored")
    /\ tasks' = [tasks EXCEPT ![t] =
          IF tk.ret.ok
          THEN Return(done, Ok(tk.pend.data.access))
          ELSE Return(done, Ok(NoVal))]
    /\ UNCHANGED <<store, now, started, session, ambient, windowCheck>>

\* clearAuthData called on its own.
ClearAuthDataRemove(t) ==
    LET tk == tasks[t] IN
    /\ ~Busy
    /\ At(tk, "clearAuthData", "remove")
    /\ store' = clearAuthData(store)
    /\ windowCheck' = FALSE
    /\ tasks' = [tasks EXCEPT ![t] = Return(tk, Ok(NoVal))]
    /\ UNCHANGED <<now, started, session, ambient>>

\* The exports of token-storage.js called directly, from either context.
SaveRequests ==
    { [accessToken |-> [kind |-> "access_token", n |-> 2],
       refreshToken |-> IF r THEN [kind |-> "refresh_token", n |-> 2] ELSE NoVal,
       idToken |-> NoVal,
       userData |-> [kind |-> "user", n |-> 2],
       expiresIn |-> e] : r \in BOOLEAN, e \in SaveExpiresIn }

StartStoreAuthTokens(t) ==
    /\ ~Busy
    /\ started < MaxStarts
    /\ FreeSlot(t)
    /\ \E c \in Contexts, r \in SaveRequests :
          tasks' = [tasks EXCEPT ![t] =
              [NewTask("storeAuthTokens", c, <<Frame("storeAuthTokens", "set")>>)
                  EXCEPT !.pend = PendingSave(r.accessToken, r.refreshToken, r.idToken,
                                              r.userData, r.expiresIn)]]
    /\ started' = started + 1
    /\ UNCHANGED <<store, now, session, ambient, windowCheck>>

StartGetAccessToken(t) ==
    /\ \E c \in Contexts :
          Spawn(t, "getAccessToken", c, <<Frame("getAccessToken", "read")>>)
    /\ UNCHANGED <<store, now, session, ambient, windowCheck>>

StartClearAuthData(t) ==
    /\ \E c \in Contexts :
          Spawn(t, "clearAuthData", c, <<Frame("clearAuthData", "remove")>>)
    /\ UNCHANGED <<store, now, session, ambient, windowCheck>>

StartRefreshAccessToken(t) ==
    /\ \E c \in Contexts :
          Spawn(t, "refreshAccessToken", c, <<Frame("refreshAccessToken", "read")>>)
    /\ UNCHANGED <<store, now, session, ambient, windowCheck>>

-----------------------------------------------------------------------------
\* google-auth.js

StartGetAuthToken(t) ==
    /\ Spawn(t, "getAuthToken", "fg",
             <<Frame("getAuthToken", "after"), Frame("getAccessToken", "read")>>)
    /\ UNCHANGED <<store, now, session, ambient, windowCheck>>

GetAuthTokenAfter(t) ==
    LET tk == tasks[t] IN
    /\ At(tk, "getAuthToken", "after")
    /\ tasks' = [tasks EXCEPT ![t] =
          IF tk.ret.ok THEN Return(tk, tk.ret)
          ELSE Return(tk, Err("Authentication token unavailable"))]
    /\ UNCHANGED <<store, now, started, session, ambient, windowCheck>>

\* notifyListeners: every registered listener is called with the user.
Registered(l) == Cardinality({i \in 1 .. Len(authListeners) : authListeners[i] = l})

notifyListeners(h, user) ==
    [l \in DOMAIN h |->
        IF Registered(l) > 0
        THEN [n |-> h[l].n + Registered(l), last |-> user]
        ELSE h[l]]

\* onAuthStateChanged without the immediate call of the listener.
OnAuthStateChanged_Silent(l) ==
    /\ ~Busy
    /\ l = Len(authListeners) + 1
    /\ authListeners' = Append(authListeners, l)
    /\ UNCHANGED <<store, now, tasks, started, currentUser, heard, ambient, windowCheck>>

\* onAuthStateChanged(listener): synchronous.
\* The listeners of the model register in the order of their ids.
OnAuthStateChanged(l) ==
    /\ ~Busy
    /\ l = Len(authListeners) + 1
    /\ authListeners' = Append(authListeners, l)
    /\ heard' = [heard EXCEPT ![l] = [n |-> @.n + 1, last |-> currentUser]]
    /\ UNCHANGED <<store, now, tasks, started, currentUser, ambient, windowCheck>>

\* signOut: getAccessToken().catch(() => null), clearAuthData, revokeToken
\* when there was a token, then the state update.
StartSignOut(t) ==
    /\ Spawn(t, "signOut", "fg",
             <<Frame("signOut", "gotToken"), Frame("getAccessToken", "read")>>)
    /\ UNCHANGED <<store, now, session, ambient, windowCheck>>

SignOutGotToken(t) ==
    LET tk == tasks[t] IN
    /\ At(tk, "signOut", "gotToken")
    /\ tasks' = [tasks EXCEPT ![t] =
          [SetPc(tk, "clear") EXCEPT !.tok = IF tk.ret.ok THEN tk.ret.v ELSE NoVal]]
    /\ UNCHANGED <<store, now, started, session, ambient, windowCheck>>

SignOutClear(t) ==
    LET tk == tasks[t] IN
    /\ ~Busy
    /\ At(tk, "signOut", "clear")
    /\ store' = clearAuthData(store)
    /\ windowCheck' = FALSE
    /\ IF tk.tok # NoVal
       THEN /\ tasks' = [tasks EXCEPT ![t] = SetPc(tk, "revoke")]
            /\ UNCHANGED session
       ELSE /\ tasks' = [tasks EXCEPT ![t] = Return(tk, Ok(NoVal))]
            /\ currentUser' = NoVal
            /\ heard' = notifyListeners(heard, NoVal)
            /\ UNCHANGED authListeners
    /\ UNCHANGED <<now, started, ambient>>

\* revokeToken answers (ok), answers with an error status or the fetch
\* rejects: signOut goes on in each case.
SignOutRevoke(t) ==
    LET tk == tasks[t] IN
    /\ ~Busy
    /\ At(tk, "signOut", "revoke")
    /\ \E revoked \in BOOLEAN :
          tasks' = [tasks EXCEPT ![t] =
              Return([tk EXCEPT !.tok = IF revoked THEN NoVal ELSE @], Ok(NoVal))]
    /\ currentUser' = NoVal
    /\ heard' = notifyListeners(heard, NoVal)
    /\ UNCHANGED <<store, now, started, authListeners, ambient, windowCheck>>

\* setupTokenRefresh: refresh at once when less than five minutes remain,
\* else create the one-shot alarm 'manual-token-refresh'.
SetupRemaining(t) ==
    LET tk == tasks[t]
        timeRemaining == getTokenTimeRemaining(store, now)
        refreshTime == timeRemaining - REFRESH_THRESHOLD IN
    /\ ~Busy
    /\ At(tk, "setupTokenRefresh", "remaining")
    /\ IF timeRemaining > 0 /\ timeRemaining < REFRESH_THRESHOLD
       THEN /\ tasks' = [tasks EXCEPT ![t] =
                  Call(tk, "refreshed", "refreshAccessToken", "read")]
            /\ UNCHANGED alarms
       ELSE IF timeRemaining > 0
       THEN /\ tasks' = [tasks EXCEPT ![t] = Return(tk, Ok(NoVal))]
            /\ alarms' = [alarms EXCEPT !["manual-token-refresh"] =
                  now + Max(MS_PER_MINUTE, refreshTime * 1000)]
       ELSE /\ tasks' = [tasks EXCEPT ![t] = Return(tk, Ok(NoVal))]
            /\ UNCHANGED alarms
    /\ UNCHANGED <<store, now, started, session, ENCRYPTION_KEY, codec, popup, msgs,
                   windowCheck>>

SetupRefreshed(t) ==
    LET tk == tasks[t] IN
    /\ At(tk, "setupTokenRefresh", "refreshed")
    /\ tasks' = [tasks EXCEPT ![t] = Return(tk, Ok(NoVal))]
    /\ UNCHANGED <<store, now, started, session, ambient, windowCheck>>

\* initTokenManagement, run when the token-storage module loads in a context.
StartInitTokenManagement(t) ==
    /\ \E c \in Contexts :
          Spawn(t, "initTokenManagement", c, <<Frame("initTokenManagement", "valid")>>)
    /\ UNCHANGED <<store, now, session, ambient, windowCheck>>

InitTokenManagementValid(t) ==
    LET tk == tasks[t] IN
    /\ ~Busy
    /\ At(tk, "initTokenManagement", "valid")
    /\ tasks' = [tasks EXCEPT ![t] =
          IF hasValidToken(store, now)
          THEN Call(tk, "done", "setupTokenRefresh", "remaining")
          ELSE Return(tk, Ok(NoVal))]
    /\ UNCHANGED <<store, now, started, session, ambient, windowCheck>>

InitTokenManagementDone(t) ==
    LET tk == tasks[t] IN
    /\ At(tk, "initTokenManagement", "done")
    /\ tasks' = [tasks EXCEPT ![t] = Return(tk, Ok(NoVal))]
    /\ UNCHANGED <<store, now, started, session, ambient, windowCheck>>

-----------------------------------------------------------------------------
\* token-manager.js

\* chrome.runtime.sendMessage from the background: delivered to the
\* listener of the foreground view.
SendMessage(m, action) == m \cup {action}

\* initializeTokenManager: the periodic alarm is created, then the initial
\* check runs.
StartInitializeTokenManager(t) ==
    /\ Spawn(t, "initializeTokenManager", "bg",
             <<Frame("initializeTokenManager", "checked"),
               Frame("checkAndRefreshToken", "valid")>>)
    /\ alarms' = [alarms EXCEPT !["token-refresh-alarm"] =
                      now + TOKEN_CHECK_INTERVAL * MS_PER_MINUTE]
    /\ UNCHANGED <<store, now, session, ENCRYPTION_KEY, codec, popup, msgs, windowCheck>>

InitializeTokenManagerChecked(t) ==
    LET tk == tasks[t] IN
    /\ At(tk, "initializeTokenManager", "checked")
    /\ tasks' = [tasks EXCEPT ![t] = Return(tk, Ok(NoVal))]
    /\ UNCHANGED <<store, now, started, session, ambient, windowCheck>>

\* The onMessage listener: 'check-token' runs checkAndRefreshToken,
\* 'refresh-token' runs requestTokenRefresh.
StartCheckToken(t) ==
    /\ Spawn(t, "check-token", "bg", <<Frame("checkAndRefreshToken", "valid")>>)
    /\ UNCHANGED <<store, now, session, ambient, windowCheck>>

\* 'refresh-token' answered by the threshold check of checkAndRefreshToken.
StartRefreshToken_Checked(t) ==
    /\ Spawn(t, "refresh-token", "bg",
             <<Frame("requestTokenRefresh", "refreshed"),
               Frame("checkAndRefreshToken", "valid")>>)
    /\ UNCHANGED <<store, now, session, ambient, windowCheck>>

StartRefreshToken(t) ==
    /\ Spawn(t, "refresh-token", "bg",
             <<Frame("requestTokenRefresh", "refreshed"),
               Frame("refreshAccessToken", "read")>>)
    /\ UNCHANGED <<store, now, session, ambient, windowCheck>>

CheckValid(t) ==
    LET tk == tasks[t] IN
    /\ ~Busy
    /\ At(tk, "checkAndRefreshToken", "valid")
    /\ tasks' = [tasks EXCEPT ![t] =
          IF ~hasValidToken(store, now)
          THEN Return(tk, Ok(NoVal))
          ELSE SetPc(tk, "remaining")]
    /\ UNCHANGED <<store, now, started, session, ambient, windowCheck>>

\* checkAndRefreshToken refreshing also when exactly the threshold is left.
CheckRemaining_Inclusive(t) ==
    LET tk == tasks[t]
        timeRemaining == getTokenTimeRemaining(store, now) IN
    /\ ~Busy
    /\ At(tk, "checkAndRefreshToken", "remaining")
    /\ IF timeRemaining <= REFRESH_THRESHOLD
       THEN /\ tasks' = [tasks EXCEPT ![t] =
                  Call(tk, "refreshed", "refreshAccessToken", "read")]
            /\ windowCheck' = (windowCheck \/ hasValidToken(store, now))
       ELSE /\ tasks' = [tasks EXCEPT ![t] = Return(tk, Ok(NoVal))]
            /\ UNCHANGED windowCheck
    /\ UNCHANGED <<store, now, started, session, ambient>>

CheckRemaining(t) ==
    LET tk == tasks[t]
        timeRemaining == getTokenTimeRemaining(store, now) IN
    /\ ~Busy
    /\ At(tk, "checkAndRefreshToken", "remaining")
    /\ IF timeRemaining < REFRESH_THRESHOLD
       THEN /\ tasks' = [tasks EXCEPT ![t] =
                  Call(tk, "refreshed", "refreshAccessToken", "read")]
            /\ windowCheck' = (windowCheck \/ hasValidToken(store, now))
       ELSE /\ tasks' = [tasks EXCEPT ![t] = Return(tk, Ok(NoVal))]
            /\ UNCHANGED windowCheck
    /\ UNCHANGED <<store, now, started, session, ambient>>

CheckRefreshed(t) ==
    LET tk == tasks[t] IN
    /\ At(tk, "checkAndRefreshToken", "refreshed")
    /\ IF tk.ret.v # NoVal
       THEN /\ msgs' = SendMessage(msgs, "token-refreshed")
            /\ tasks' = [tasks EXCEPT ![t] = Return(tk, Ok(NoVal))]
       ELSE /\ tasks' = [tasks EXCEPT ![t] = SetPc(tk, "clear")]
            /\ UNCHANGED msgs
    /\ UNCHANGED <<store, now, started, session, ENCRYPTION_KEY, codec, popup, alarms, windowCheck>>

\* checkAndRefreshToken sending 'auth-invalid' without awaiting
\* clearAuthData.
CheckClear_NotifyOnly(t) ==
    LET tk == tasks[t] IN
    /\ ~Busy
    /\ At(tk, "checkAndRefreshToken", "clear")
    /\ msgs' = SendMessage(msgs, "auth-invalid")
    /\ tasks' = [tasks EXCEPT ![t] = Return(tk, Ok(NoVal))]
    /\ UNCHANGED <<store, now, started, session, ENCRYPTION_KEY, codec, popup, alarms,
                   windowCheck>>

CheckClear(t) ==
    LET tk == tasks[t] IN
    /\ ~Busy
    /\ At(tk, "checkAndRefreshToken", "clear")
    /\ store' = clearAuthData(store)
    /\ windowCheck' = FALSE
    /\ msgs' = SendMessage(msgs, "auth-invalid")
    /\ tasks' = [tasks EXCEPT ![t] = Return(tk, Ok(NoVal))]
    /\ UNCHANGED <<now, started, session, ENCRYPTION_KEY, codec, popup, alarms>>

RequestTokenRefreshRefreshed(t) ==
    LET tk == tasks[t] IN
    /\ At(tk, "requestTokenRefresh", "refreshed")
    /\ msgs' = IF tk.ret.v # NoVal THEN SendMessage(msgs, "token-refreshed") ELSE msgs
    /\ tasks' = [tasks EXCEPT ![t] =
          Return(tk, Ok(IF tk.ret.v # NoVal THEN True ELSE False))]
    /\ UNCHANGED <<store, now, started, session, ENCRYPTION_KEY, codec, popup, alarms, windowCheck>>

-----------------------------------------------------------------------------
\* The popup (src/unnamed/part_001): handleBackgroundMessages

\* 'token-refreshed': a notification is shown.
HandleTokenRefreshed ==
    /\ ~Busy
    /\ "token-refreshed" \in msgs
    /\ msgs' = msgs \ {"token-refreshed"}
    /\ UNCHANGED <<store, now, tasks, started, session, ENCRYPTION_KEY, codec, popup, alarms,
                   windowCheck>>

\* 'auth-invalid' handled by showing the error only.
HandleAuthInvalid_NoticeOnly(t) ==
    /\ ~Busy
    /\ "auth-invalid" \in msgs
    /\ FreeSlot(t)
    /\ msgs' = msgs \ {"auth-invalid"}
    /\ popup' = ShowErrorCall(popup, SessionExpired)
    /\ UNCHANGED <<store, now, tasks, started, session, ENCRYPTION_KEY, codec, alarms,
                   windowCheck>>

\* 'auth-invalid': showError, then signOut() is called.
HandleAuthInvalid(t) ==
    /\ ~Busy
    /\ "auth-invalid" \in msgs
    /\ FreeSlot(t)
    /\ msgs' = msgs \ {"auth-invalid"}
    /\ tasks' = [tasks EXCEPT ![t] =
          NewTask("handleBackgroundMessages", "fg",
                  <<Frame("signOut", "gotToken"), Frame("getAccessToken", "read")>>)]
    /\ popup' = ShowErrorCall(popup, SessionExpired)
    /\ UNCHANGED <<store, now, started, session, ENCRYPTION_KEY, codec, alarms, windowCheck>>

-----------------------------------------------------------------------------
\* google-auth.js: signInWithGoogle and loadAuthState

AuthError == Err("Failed to authenticate with Google")

StartSignIn(t) ==
    /\ Spawn(t, "signInWithGoogle", "fg", <<Frame("signInWithGoogle", "valid")>>)
    /\ UNCHANGED <<store, now, session, ambient, windowCheck>>

SignInValid(t) ==
    LET tk == tasks[t] IN
    /\ ~Busy
    /\ At(tk, "signInWithGoogle", "valid")
    /\ tasks' = [tasks EXCEPT ![t] =
          SetPc(tk, IF hasValidToken(store, now) THEN "cached" ELSE "consent")]
    /\ UNCHANGED <<store, now, started, session, ambient, windowCheck>>

SignInCached(t) ==
    LET tk == tasks[t]
        userData == getUserData(store, ENCRYPTION_KEY[tk.ctx]) IN
    /\ ~Busy
    /\ At(tk, "signInWithGoogle", "cached")
    /\ IF userData # NoVal
       THEN /\ currentUser' = userData
            /\ heard' = notifyListeners(heard, userData)
            /\ tasks' = [tasks EXCEPT ![t] = Return(tk, Ok(userData))]
       ELSE /\ tasks' = [tasks EXCEPT ![t] = SetPc(tk, "consent")]
            /\ UNCHANGED <<currentUser, heard>>
    /\ UNCHANGED <<store, now, started, authListeners, ambient, windowCheck>>

\* The token responses the provider may give.
TokenResponses ==
    { [access_token |-> [kind |-> "access_token", n |-> 1],
       refresh_token |-> IF r THEN [kind |-> "refresh_token", n |-> 1] ELSE NoVal,
       id_token |-> IF r THEN [kind |-> "id_token", n |-> 1] ELSE NoVal,
       expires_in |-> e] : r \in BOOLEAN, e \in ExpiresInValues }

\* launchWebAuthFlow, extractAuthCode, exchangeCodeForTokens and
\* fetchUserInfo: three awaits on the network that touch no state of the
\* extension, taken as one step at the moment the last one answers. Any of
\* them may fail; when all succeed storeAuthTokens is called.
SignInSteps == {"consent", "code", "exchange", "userinfo"}

SignInConsent(t) ==
    LET tk == tasks[t]
        userData == [kind |-> "user", n |-> 1] IN
    /\ ~Busy
    /\ At(tk, "signInWithGoogle", "consent")
    /\ \/ \E failed \in SignInSteps :
             tasks' = [tasks EXCEPT ![t] = Return(tk, AuthError)]
       \/ \E r \in TokenResponses :
             tasks' = [tasks EXCEPT ![t] =
                 BeginStore([tk EXCEPT !.user = userData], "stored",
                            r.access_token, r.refresh_token, r.id_token,
                            userData, r.expires_in)]
    /\ UNCHANGED <<store, now, started, session, ambient, windowCheck>>

SignInStored(t) ==
    LET tk == tasks[t]
        done == [tk EXCEPT !.pend = NoPend] IN
    /\ At(tk, "signInWithGoogle", "stored")
    /\ tasks' = [tasks EXCEPT ![t] =
          IF tk.ret.ok
          THEN Call(done, "scheduled", "setupTokenRefresh", "remaining")
          ELSE Return([done EXCEPT !.user = NoVal], AuthError)]
    /\ UNCHANGED <<store, now, started, session, ambient, windowCheck>>

SignInScheduled(t) ==
    LET tk == tasks[t] IN
    /\ At(tk, "signInWithGoogle", "scheduled")
    /\ currentUser' = tk.user
    /\ heard' = notifyListeners(heard, tk.user)
    /\ tasks' = [tasks EXCEPT ![t] = Return([tk EXCEPT !.user = NoVal], Ok(tk.user))]
    /\ UNCHANGED <<store, now, started, authListeners, ambient, windowCheck>>

StartLoadAuthState(t) ==
    /\ Spawn(t, "loadAuthState", "fg", <<Frame("loadAuthState", "valid")>>)
    /\ UNCHANGED <<store, now, session, ambient, windowCheck>>

LoadAuthStateValid(t) ==
    LET tk == tasks[t] IN
    /\ ~Busy
    /\ At(tk, "loadAuthState", "valid")
    /\ tasks' = [tasks EXCEPT ![t] =
          SetPc(tk, IF hasValidToken(store, now) THEN "user" ELSE "expiredUser")]
    /\ UNCHANGED <<store, now, started, session, ambient, windowCheck>>

LoadAuthStateUser(t) ==
    LET tk == tasks[t]
        userData == getUserData(store, ENCRYPTION_KEY[tk.ctx]) IN
    /\ ~Busy
    /\ At(tk, "loadAuthState", "user")
    /\ IF userData # NoVal
       THEN /\ currentUser' = userData
            /\ heard' = notifyListeners(heard, userData)
            /\ tasks' = [tasks EXCEPT ![t] =
                  Call(tk, "scheduled", "setupTokenRefresh", "remaining")]
       ELSE /\ tasks' = [tasks EXCEPT ![t] = Return(tk, Ok(False))]
            /\ UNCHANGED <<currentUser, heard>>
    /\ UNCHANGED <<store, now, started, authListeners, ambient, windowCheck>>

LoadAuthStateScheduled(t) ==
    LET tk == tasks[t] IN
    /\ At(tk, "loadAuthState", "scheduled")
    /\ tasks' = [tasks EXCEPT ![t] = Return(tk, Ok(True))]
    /\ UNCHANGED <<store, now, started, session, ambient, windowCheck>>

LoadAuthStateExpiredUser(t) ==
    LET tk == tasks[t] IN
    /\ ~Busy
    /\ At(tk, "loadAuthState", "expiredUser")
    /\ tasks' = [tasks EXCEPT ![t] =
          IF getUserData(store, ENCRYPTION_KEY[tk.ctx]) # NoVal
          THEN Call(tk, "refreshed", "refreshAccessToken", "read")
          ELSE Return(tk, Ok(False))]
    /\ UNCHANGED <<store, now, started, session, ambient, windowCheck>>

LoadAuthStateRefreshed(t) ==
    LET tk == tasks[t] IN
    /\ At(tk, "loadAuthState", "refreshed")
    /\ tasks' = [tasks EXCEPT ![t] =
          IF tk.ret.v # NoVal THEN SetPc(tk, "newUser") ELSE Return(tk, Ok(False))]
    /\ UNCHANGED <<store, now, started, session, ambient, windowCheck>>

LoadAuthStateNewUser(t) ==
    LET tk == tasks[t]
        userData == getUserData(store, ENCRYPTION_KEY[tk.ctx]) IN
    /\ ~Busy
    /\ At(tk, "loadAuthState", "newUser")
    /\ currentUser' = userData
    /\ heard' = notifyListeners(heard, userData)
    /\ tasks' = [tasks EXCEPT ![t] = Return(tk, Ok(True))]
    /\ UNCHANGED <<store, now, started, authListeners, ambient, windowCheck>>

\* The result of a finished call is handed to its caller.
Settle(t) ==
    /\ Finished(tasks[t])
    /\ tasks' = [tasks EXCEPT ![t] = IdleTask]
    /\ UNCHANGED <<store, now, started, session, ambient, windowCheck>>

-----------------------------------------------------------------------------
\* The clock.

TickFine ==
    /\ ~Busy
    /\ \E d \in {1, SIM_DELAY} :
          /\ (d = 1) => (now % 1000) < MaxSubMs
          /\ now + d <= MaxNow
          /\ now' = now + d
    /\ UNCHANGED <<store, tasks, started, session, ambient, windowCheck>>

-----------------------------------------------------------------------------
Next ==
    \/ \E t \in TaskIds : StartGetAuthToken(t)
    \/ \E t \in TaskIds : GetAuthTokenAfter(t)
    \/ \E t \in TaskIds : GetAccessTokenRead(t)
    \/ \E t \in TaskIds : GetAccessTokenRefreshed(t)
    \/ \E t \in TaskIds : RefreshRead(t)
    \/ \E t \in TaskIds : RefreshExchange(t)
    \/ \E t \in TaskIds : StoreAuthTokensSet(t)
    \/ \E t \in TaskIds : RefreshStored(t)
    \/ \E l \in Listeners : OnAuthStateChanged(l)
    \/ \E t \in TaskIds : StartSignOut(t)
    \/ \E t \in TaskIds : SignOutGotToken(t)
    \/ \E t \in TaskIds : SignOutClear(t)
    \/ \E t \in TaskIds : SignOutRevoke(t)
    \/ \E t \in TaskIds : SetupRemaining(t)
    \/ \E t \in TaskIds : SetupRefreshed(t)
    \/ \E t \in TaskIds : StartInitTokenManagement(t)
    \/ \E t \in TaskIds : InitTokenManagementValid(t)
    \/ \E t \in TaskIds : InitTokenManagementDone(t)
    \/ \E t \in TaskIds : StartSignIn(t)
    \/ \E t \in TaskIds : SignInValid(t)
    \/ \E t \in TaskIds : SignInCached(t)
    \/ \E t \in TaskIds : SignInConsent(t)
    \/ \E t \in TaskIds : SignInStored(t)
    \/ \E t \in TaskIds : SignInScheduled(t)
    \/ \E t \in TaskIds : StartLoadAuthState(t)
    \/ \E t \in TaskIds : LoadAuthStateValid(t)
    \/ \E t \in TaskIds : LoadAuthStateUser(t)
    \/ \E t \in TaskIds : LoadAuthStateScheduled(t)
    \/ \E t \in TaskIds : LoadAuthStateExpiredUser(t)
    \/ \E t \in TaskIds : LoadAuthStateRefreshed(t)
    \/ \E t \in TaskIds : LoadAuthStateNewUser(t)
    \/ \E t \in TaskIds : StartInitializeTokenManager(t)
    \/ \E t \in TaskIds : InitializeTokenManagerChecked(t)
    \/ \E t \in TaskIds : StartCheckToken(t)
    \/ \E t \in TaskIds : StartRefreshToken(t)
    \/ \E t \in TaskIds : CheckValid(t)
    \/ \E t \in TaskIds : CheckRemaining(t)
    \/ \E t \in TaskIds : CheckRefreshed(t)
    \/ \E t \in TaskIds : CheckClear(t)
    \/ \E t \in TaskIds : RequestTokenRefreshRefreshed(t)
    \/ HandleTokenRefreshed
    \/ \E t \in TaskIds : HandleAuthInvalid(t)
    \/ \E t \in TaskIds : Settle(t)
    \/ TickFine

Spec == Init /\ [][Next]_vars

\* The token store on its own: its exports called in any order and
\* overlapping, from either context.
NextStore ==
    \/ \E t \in TaskIds : StartStoreAuthTokens(t)
    \/ \E t \in TaskIds : StartGetAccessToken(t)
    \/ \E t \in TaskIds : StartClearAuthData(t)
    \/ \E t \in TaskIds : StartRefreshAccessToken(t)
    \/ \E t \in TaskIds : GetAccessTokenRead(t)
    \/ \E t \in TaskIds : GetAccessTokenRefreshed(t)
    \/ \E t \in TaskIds : RefreshRead(t)
    \/ \E t \in TaskIds : RefreshExchange(t)
    \/ \E t \in TaskIds : StoreAuthTokensSet(t)
    \/ \E t \in TaskIds : RefreshStored(t)
    \/ \E t \in TaskIds : ClearAuthDataRemove(t)
    \/ \E t \in TaskIds : Settle(t)
    \/ TickFine

SpecStore == Init /\ [][NextStore]_vars

-----------------------------------------------------------------------------
\* The schedule: the background worker has initialised, the alarms it and
\* setupTokenRefresh registered fire when they are due, every handler runs
\* as far as it can before the clock moves on, and the foreground does
\* nothing but sign in.

AlarmDue(a) == alarms[a] # NoAlarm /\ alarms[a] <= now

\* The periodic alarm fires: handleTokenAlarm awaits checkAndRefreshToken.
HandleTokenAlarm(t) ==
    /\ ~Busy
    /\ AlarmDue("token-refresh-alarm")
    /\ FreeSlot(t)
    /\ alarms' = [alarms EXCEPT !["token-refresh-alarm"] =
                      @ + TOKEN_CHECK_INTERVAL * MS_PER_MINUTE]
    /\ tasks' = [tasks EXCEPT ![t] =
          NewTask("handleTokenAlarm", "bg", <<Frame("checkAndRefreshToken", "valid")>>)]
    /\ UNCHANGED <<store, now, started, session, ENCRYPTION_KEY, codec, popup, msgs, windowCheck>>

\* The one-shot alarm fires: handleTokenAlarm compares its name with
\* ALARM_NAME and does nothing.
HandleOtherAlarm ==
    /\ ~Busy
    /\ AlarmDue("manual-token-refresh")
    /\ alarms' = [alarms EXCEPT !["manual-token-refresh"] = NoAlarm]
    /\ UNCHANGED <<store, now, tasks, started, session, ENCRYPTION_KEY, codec, popup, msgs,
                   windowCheck>>

\* Sign-in, once the background worker has initialised.
ScheduledSignIn(t) ==
    /\ alarms["token-refresh-alarm"] # NoAlarm
    /\ StartSignIn(t)

\* A call that can go no further until time passes.
Waiting(tk) ==
    \/ tk = IdleTask
    \/ ExchangeInFlight(tk) /\ now < tk.t0 + SIM_DELAY

TickMinute ==
    /\ ~Busy
    /\ alarms["token-refresh-alarm"] # NoAlarm
    /\ \A a \in DOMAIN alarms : ~AlarmDue(a)
    /\ \A t \in TaskIds : Waiting(tasks[t])
    /\ now + MS_PER_MINUTE <= MaxMinutes * MS_PER_MINUTE
    /\ now' = now + MS_PER_MINUTE
    /\ UNCHANGED <<store, tasks, started, session, ambient, windowCheck>>

NextSched ==
    \/ \E t \in TaskIds : StartInitializeTokenManager(t)
    \/ \E t \in TaskIds : InitializeTokenManagerChecked(t)
    \/ \E t \in TaskIds : HandleTokenAlarm(t)
    \/ HandleOtherAlarm
    \/ \E t \in TaskIds : CheckValid(t)
    \/ \E t \in TaskIds : CheckRemaining(t)
    \/ \E t \in TaskIds : CheckRefreshed(t)
    \/ \E t \in TaskIds : CheckClear(t)
    \/ \E t \in TaskIds : RefreshRead(t)
    \/ \E t \in TaskIds : RefreshExchange(t)
    \/ \E t \in TaskIds : StoreAuthTokensSet(t)
    \/ \E t \in TaskIds : RefreshStored(t)
    \/ \E t \in TaskIds : ScheduledSignIn(t)
    \/ \E t \in TaskIds : SignInValid(t)
    \/ \E t \in TaskIds : SignInCached(t)
    \/ \E t \in TaskIds : SignInConsent(t)
    \/ \E t \in TaskIds : SignInStored(t)
    \/ \E t \in TaskIds : SignInScheduled(t)
    \/ \E t \in TaskIds : SetupRemaining(t)
    \/ \E t \in TaskIds : Settle(t)
    \/ TickMinute

SpecSched == Init /\ [][NextSched]_vars

-----------------------------------------------------------------------------
\* The schedule with a view open: the view registers listeners, signs in and
\* out, and handles the messages of the background.

\* Sign-out, once the background worker has initialised.
ScheduledSignOut(t) ==
    /\ alarms["token-refresh-alarm"] # NoAlarm
    /\ StartSignOut(t)

\* A minute passes once the messages sent have been delivered.
TickDelivered ==
    /\ msgs = {}
    /\ TickMinute

NextView ==
    \/ \E t \in TaskIds : StartInitializeTokenManager(t)
    \/ \E t \in TaskIds : InitializeTokenManagerChecked(t)
    \/ \E t \in TaskIds : HandleTokenAlarm(t)
    \/ HandleOtherAlarm
    \/ \E t \in TaskIds : CheckValid(t)
    \/ \E t \in TaskIds : CheckRemaining(t)
    \/ \E t \in TaskIds : CheckRefreshed(t)
    \/ \E t \in TaskIds : CheckClear(t)
    \/ \E t \in TaskIds : RefreshRead(t)
    \/ \E t \in TaskIds : RefreshExchange(t)
    \/ \E t \in TaskIds : StoreAuthTokensSet(t)
    \/ \E t \in TaskIds : RefreshStored(t)
    \/ \E t \in TaskIds : ScheduledSignIn(t)
    \/ \E t \in TaskIds : SignInValid(t)
    \/ \E t \in TaskIds : SignInCached(t)
    \/ \E t \in TaskIds : SignInConsent(t)
    \/ \E t \in TaskIds : SignInStored(t)
    \/ \E t \in TaskIds : SignInScheduled(t)
    \/ \E t \in TaskIds : SetupRemaining(t)
    \/ \E t \in TaskIds : Settle(t)
    \/ TickDelivered
    \/ \E l \in Listeners : OnAuthStateChanged(l)
    \/ \E t \in TaskIds : ScheduledSignOut(t)
    \/ \E t \in TaskIds : SignOutGotToken(t)
    \/ \E t \in TaskIds : SignOutClear(t)
    \/ \E t \in TaskIds : SignOutRevoke(t)
    \/ \E t \in TaskIds : GetAccessTokenRead(t)
    \/ \E t \in TaskIds : GetAccessTokenRefreshed(t)
    \/ HandleTokenRefreshed
    \/ \E t \in TaskIds : HandleAuthInvalid(t)

\* A step the program takes by itself: a callback or a continuation that is
\* due runs, an alarm that is due fires, a message that was sent is
\* delivered. Starting a call, registering a listener and the passing of
\* time are not such steps.
Reaction ==
    NextView /\ started' = started /\ now' = now /\ authListeners' = authListeners

\* The event loop runs what is due.
SpecView == Init /\ [][NextView]_vars /\ WF_vars(Reaction)

-----------------------------------------------------------------------------
\* A view that has just been opened: the token-storage module has asked
\* storage for the encryption key and the callback has not run yet (it never
\* assigns ENCRYPTION_KEY if it throws 'Missing encryption key').

InitLoading ==
    /\ now = 0
    /\ store \in InitStores
    /\ tasks = [t \in TaskIds |-> IdleTask]
    /\ started = 0
    /\ ENCRYPTION_KEY = [c \in Contexts |-> IF c = "fg" THEN 0 ELSE THE_KEY]
    /\ currentUser = NoVal
    /\ authListeners = <<>>
    /\ heard = [l \in Listeners |-> [n |-> 0, last |-> NoVal]]
    /\ msgs = {}
    /\ alarms = [a \in {"token-refresh-alarm", "manual-token-refresh"} |-> NoAlarm]
    /\ windowCheck = FALSE
    /\ codec = NoCodec
    /\ popup = NoPopup

\* The callback of chrome.storage.local.get(['auth_encryption_key']) runs.
KeyLoaded(c) ==
    /\ ~Busy
    /\ ENCRYPTION_KEY[c] = 0
    /\ ENCRYPTION_KEY' = [ENCRYPTION_KEY EXCEPT ![c] = THE_KEY]
    /\ UNCHANGED <<store, now, tasks, started, session, msgs, alarms, windowCheck, codec, popup>>

NextLoading ==
    \/ \E c \in Contexts : KeyLoaded(c)
    \/ \E l \in Listeners : OnAuthStateChanged(l)
    \/ \E t \in TaskIds : StartSignIn(t)
    \/ \E t \in TaskIds : SignInValid(t)
    \/ \E t \in TaskIds : SignInCached(t)
    \/ \E t \in TaskIds : SignInConsent(t)
    \/ \E t \in TaskIds : StoreAuthTokensSet(t)
    \/ \E t \in TaskIds : SignInStored(t)
    \/ \E t \in TaskIds : SetupRemaining(t)
    \/ \E t \in TaskIds : SignInScheduled(t)
    \/ \E t \in TaskIds : Settle(t)
    \/ TickFine

SpecLoading == InitLoading /\ [][NextLoading]_vars

\* The exports of token-storage called in a context whose key may not be
\* loaded yet.
NextStoreLoading ==
    \/ NextStore
    \/ \E c \in Contexts : KeyLoaded(c)

SpecStoreLoading == InitLoading /\ [][NextStoreLoading]_vars

\* The exports of token-storage over a record saved from a token response
\* that declared no expires_in (signInWithGoogle hands tokenResponse.expires_in
\* on unchecked): Date.now() + undefined * 1000 is NaN, which is neither
\* before nor after any instant, as is the undefined of an absent entry.
InitPartial ==
    /\ now = 0
    /\ store \in InitStores \cup {SavedRecord(TRUE, NoExp)}
    /\ tasks = [t \in TaskIds |-> IdleTask]
    /\ started = 0
    /\ ENCRYPTION_KEY = [c \in Contexts |-> THE_KEY]
    /\ currentUser = NoVal
    /\ authListeners = <<>>
    /\ heard = [l \in Listeners |-> [n |-> 0, last |-> NoVal]]
    /\ msgs = {}
    /\ alarms = [a \in {"token-refresh-alarm", "manual-token-refresh"} |-> NoAlarm]
    /\ windowCheck = FALSE
    /\ codec = NoCodec
    /\ popup = NoPopup

SpecPartial == InitPartial /\ [][NextStore]_vars

-----------------------------------------------------------------------------
\* The codec alone: a text is encrypted under a key and an iv, and what came
\* out is decrypted under a key and an iv that may or may not be the same.

InitCodec ==
    /\ now = 0
    /\ store = EmptyStore
    /\ tasks = [t \in TaskIds |-> IdleTask]
    /\ started = 0
    /\ ENCRYPTION_KEY = [c \in Contexts |-> THE_KEY]
    /\ currentUser = NoVal
    /\ authListeners = <<>>
    /\ heard = [l \in Listeners |-> [n |-> 0, last |-> NoVal]]
    /\ msgs = {}
    /\ alarms = [a \in {"token-refresh-alarm", "manual-token-refresh"} |-> NoAlarm]
    /\ windowCheck = FALSE
    /\ popup = NoPopup
    /\ \E data \in Texts, iv \in CodecIvs, key \in CodecKeys :
          codec = [NoCodec EXCEPT !.pc = "plain", !.data = data, !.iv = iv, !.key = key]

CodecEncrypt ==
    /\ codec.pc = "plain"
    /\ codec' = [codec EXCEPT
          !.pc = "encrypted",
          !.encryptedData = encryptDataText(codec.data, codec.iv, codec.key)]
    /\ UNCHANGED <<store, now, tasks, started, ENCRYPTION_KEY, session, msgs,
                   alarms, windowCheck, popup>>

CodecDecrypt ==
    /\ codec.pc = "encrypted"
    /\ \E iv \in CodecIvs, key \in CodecKeys :
          codec' = [codec EXCEPT
             !.pc = "decrypted", !.decryptIv = iv, !.decryptKey = key,
             !.out = decryptDataText(codec.encryptedData, iv, key)]
    /\ UNCHANGED <<store, now, tasks, started, ENCRYPTION_KEY, session, msgs,
                   alarms, windowCheck, popup>>

NextCodec ==
    \/ CodecEncrypt
    \/ CodecDecrypt

SpecCodec == InitCodec /\ [][NextCodec]_vars

-----------------------------------------------------------------------------
\* The popup page alone: initRecipeExtraction shows the loading state and
\* either fails on the way to the page content or calls processContent,
\* which asks for the token, compresses the content, sends the request to
\* the relay and shows what came back.

Displays == {"none", "block"}

InitPopup ==
    /\ now = 0
    /\ store = EmptyStore
    /\ tasks = [t \in TaskIds |-> IdleTask]
    /\ started = 0
    /\ ENCRYPTION_KEY = [c \in Contexts |-> THE_KEY]
    /\ currentUser = NoVal
    /\ authListeners = <<>>
    /\ heard = [l \in Listeners |-> [n |-> 0, last |-> NoVal]]
    /\ msgs = {}
    /\ alarms = [a \in {"token-refresh-alarm", "manual-token-refresh"} |-> NoAlarm]
    /\ windowCheck = FALSE
    /\ codec = NoCodec
    /\ \E s \in Displays, r \in Displays, e \in Displays, b \in Displays :
          popup = [NoPopup EXCEPT !.dom.status = s, !.dom.result = r,
                                  !.dom.error = e, !.dom.retry = b]

besidesPopup ==
    <<store, now, tasks, started, ENCRYPTION_KEY, currentUser, authListeners,
      heard, msgs, alarms, windowCheck, codec>>

ExtractionErrors ==
    { <<"Extension doesn't have required permissions">>, <<"No active tab found">>,
      <<"Failed to extract page content">> }

\* initRecipeExtraction up to its first callback.
InitRecipeExtraction ==
    /\ popup.pc = "idle"
    /\ popup' = [popup EXCEPT
          !.pc = "extracting",
          !.dom.status = "block", !.dom.result = "none", !.dom.error = "none",
          !.last = NoCall]
    /\ UNCHANGED besidesPopup

\* One of the callbacks of initRecipeExtraction gives up with showError.
ExtractionFailed ==
    /\ popup.pc = "extracting"
    /\ \E message \in ExtractionErrors :
          popup' = [ShowErrorCall(popup, message) EXCEPT !.pc = "idle"]
    /\ UNCHANGED besidesPopup

\* The last callback calls processContent, which awaits getAuthToken().
ProcessContentStart ==
    /\ popup.pc = "extracting"
    /\ popup' = [popup EXCEPT !.pc = "getAuthToken", !.run = NoRun]
    /\ UNCHANGED besidesPopup

\* The catch block of processContent: console.error, then showError.
Caught(p, logged, message) ==
    [ShowErrorCall(p, message) EXCEPT
        !.pc = "idle",
        !.run.consoleError = @ + logged + 1,
        !.run.showError = @ + 1,
        !.run.settled = "fulfilled"]

\* getAuthToken() returns the token, or throws.
ProcessContentToken ==
    /\ popup.pc = "getAuthToken"
    /\ \/ popup' = [popup EXCEPT !.pc = "compressHtml"]
       \/ popup' = Caught(popup, 0, <<"Authentication token unavailable">>)
    /\ UNCHANGED besidesPopup

\* compressHtml() returns and the request is sent, or it rejects with the
\* error event of the FileReader, which has no message.
ProcessContentSend ==
    /\ popup.pc = "compressHtml"
    /\ \/ popup' = [popup EXCEPT !.pc = "sendMessage", !.run.sendMessage = @ + 1]
       \/ popup' = Caught(popup, 0, <<"undefined">>)
    /\ UNCHANGED besidesPopup

\* The relay answers: processContent shows the result or the error.
ProcessContentResponse ==
    /\ popup.pc = "sendMessage"
    /\ \E response \in Responses :
          LET handled == HandleResponse(response)
              got == [popup EXCEPT !.run.response = response] IN
          popup' = IF handled.ok
                   THEN [got EXCEPT
                           !.pc = "idle",
                           !.dom = showResult(popup.dom, handled.v),
                           !.last = [fn |-> "showResult", arg |-> <<handled.v>>],
                           !.run.showResult = @ + 1,
                           !.run.settled = "fulfilled"]
                   ELSE Caught(got, handled.logged, handled.message)
    /\ UNCHANGED besidesPopup

\* 'auth-invalid' reaches the popup while it is open: showError.
SessionExpiredShown ==
    /\ popup' = ShowErrorCall(popup, SessionExpired)
    /\ UNCHANGED besidesPopup

NextPopup ==
    \/ InitRecipeExtraction
    \/ ExtractionFailed
    \/ ProcessContentStart
    \/ ProcessContentToken
    \/ ProcessContentSend
    \/ ProcessContentResponse
    \/ SessionExpiredShown

SpecPopup == InitPopup /\ [][NextPopup]_vars

-----------------------------------------------------------------------------
\* The session of one view with several subscribers: listeners are
\* registered (the same one possibly twice) and unsubscribed while the view
\* signs in and out, all within the lifetime of the stored token.

Subscribers == 1 .. MaxSubscribers

InitSession ==
    /\ now = 0
    /\ store \in {EmptyStore, SavedRecord(TRUE, SIM_DELAY)}
    /\ tasks = [t \in TaskIds |-> IdleTask]
    /\ started = 0
    /\ ENCRYPTION_KEY = [c \in Contexts |-> THE_KEY]
    /\ currentUser = NoVal
    /\ authListeners = <<>>
    /\ heard = [l \in Subscribers |-> [n |-> 0, last |-> NoVal]]
    /\ msgs = {}
    /\ alarms = [a \in {"token-refresh-alarm", "manual-token-refresh"} |-> NoAlarm]
    /\ windowCheck = FALSE
    /\ codec = NoCodec
    /\ popup = NoPopup

\* onAuthStateChanged(listener), for any listener, registered or not.
Subscribe(l) ==
    /\ ~Busy
    /\ Len(authListeners) < MaxSubscribers
    /\ heard[l].n < MaxCalls
    /\ authListeners' = Append(authListeners, l)
    /\ heard' = [heard EXCEPT ![l] = [n |-> @.n + 1, last |-> currentUser]]
    /\ UNCHANGED <<store, now, tasks, started, currentUser, ambient, windowCheck>>

\* The unsubscribe handle removing the first registration of the listener.
Unsubscribe_First(l) ==
    /\ ~Busy
    /\ heard[l].n > 0
    /\ Registered(l) > 0
    /\ LET i == CHOOSE j \in 1 .. Len(authListeners) :
                    /\ authListeners[j] = l
                    /\ \A k \in 1 .. (j - 1) : authListeners[k] # l
       IN  authListeners' = SubSeq(authListeners, 1, i - 1)
                               \o SubSeq(authListeners, i + 1, Len(authListeners))
    /\ UNCHANGED <<store, now, tasks, started, currentUser, heard, ambient, windowCheck>>

\* The handle onAuthStateChanged(listener) returned is called:
\* authListeners.filter(l => l !== listener).
Unsubscribe(l) ==
    /\ ~Busy
    /\ heard[l].n > 0
    /\ Registered(l) > 0
    /\ authListeners' = SelectSeq(authListeners, LAMBDA x : x # l)
    /\ UNCHANGED <<store, now, tasks, started, currentUser, heard, ambient, windowCheck>>

NextSession ==
    \/ \E l \in Subscribers : Subscribe(l)
    \/ \E l \in Subscribers : Unsubscribe(l)
    \/ \E t \in TaskIds : StartSignIn(t)
    \/ \E t \in TaskIds : SignInValid(t)
    \/ \E t \in TaskIds : SignInCached(t)
    \/ \E t \in TaskIds : SignInConsent(t)
    \/ \E t \in TaskIds : StoreAuthTokensSet(t)
    \/ \E t \in TaskIds : SignInStored(t)
    \/ \E t \in TaskIds : SetupRemaining(t)
    \/ \E t \in TaskIds : SignInScheduled(t)
    \/ \E t \in TaskIds : StartSignOut(t)
    \/ \E t \in TaskIds : GetAccessTokenRead(t)
    \/ \E t \in TaskIds : SignOutGotToken(t)
    \/ \E t \in TaskIds : SignOutClear(t)
    \/ \E t \in TaskIds : SignOutRevoke(t)
    \/ \E t \in TaskIds : Settle(t)

SpecSession == InitSession /\ [][NextSession]_vars

-----------------------------------------------------------------------------
\* processContent on the token storage: the popup asks getAuthToken for the
\* bearer token, which reads the store and refreshes an expired token, and
\* sends 'makeApiCall' to the relay with what it got.

StartProcessContent(t) ==
    /\ Spawn(t, "processContent", "fg",
             <<Frame("processContent", "token"), Frame("getAuthToken", "after"),
               Frame("getAccessToken", "read")>>)
    /\ popup' = [popup EXCEPT !.run = NoRun]
    /\ UNCHANGED <<store, now, session, ENCRYPTION_KEY, msgs, alarms, codec, windowCheck>>

\* processContent sending the request whatever getAuthToken did.
ProcessContentGotToken_AlwaysSend(t) ==
    LET tk == tasks[t] IN
    /\ At(tk, "processContent", "token")
    /\ tasks' = [tasks EXCEPT ![t] = [SetPc(tk, "sendMessage") EXCEPT !.tok = tk.ret.v]]
    /\ popup' = [popup EXCEPT !.run.sendMessage = @ + 1]
    /\ UNCHANGED <<store, now, started, session, ENCRYPTION_KEY, msgs, alarms, codec,
                   windowCheck>>

\* getAuthToken has returned: with a token the content is compressed and
\* the request sent with 'Bearer <token>' (or compressHtml rejects and the
\* catch block shows its error), without one the catch block shows the
\* error of getAuthToken.
ProcessContentGotToken(t) ==
    LET tk == tasks[t] IN
    /\ At(tk, "processContent", "token")
    /\ IF tk.ret.ok
       THEN \/ /\ tasks' = [tasks EXCEPT ![t] =
                     [SetPc(tk, "sendMessage") EXCEPT !.tok = tk.ret.v]]
               /\ popup' = [popup EXCEPT !.run.sendMessage = @ + 1]
            \/ /\ tasks' = [tasks EXCEPT ![t] = Return(tk, Ok(NoVal))]
               /\ popup' = Caught(popup, 0, <<"FileReader error">>)
       ELSE /\ tasks' = [tasks EXCEPT ![t] = Return(tk, Ok(NoVal))]
            /\ popup' = Caught(popup, 0, <<tk.ret.e>>)
    /\ UNCHANGED <<store, now, started, session, ENCRYPTION_KEY, msgs, alarms, codec,
                   windowCheck>>

\* The relay answers the request: the result or the error is shown.
ProcessContentReplied(t) ==
    LET tk == tasks[t] IN
    /\ ~Busy
    /\ At(tk, "processContent", "sendMessage")
    /\ \E response \in Responses :
          LET handled == HandleResponse(response)
              got == [popup EXCEPT !.run.response = response] IN
          popup' = IF handled.ok
                   THEN [got EXCEPT
                           !.dom = showResult(popup.dom, handled.v),
                           !.last = [fn |-> "showResult", arg |-> <<handled.v>>],
                           !.run.showResult = @ + 1,
                           !.run.settled = "fulfilled"]
                   ELSE Caught(got, handled.logged, handled.message)
    /\ tasks' = [tasks EXCEPT ![t] = Return([tk EXCEPT !.tok = NoVal], Ok(NoVal))]
    /\ UNCHANGED <<store, now, started, session, ENCRYPTION_KEY, msgs, alarms, codec,
                   windowCheck>>

NextRequest ==
    \/ \E t \in TaskIds : StartProcessContent(t)
    \/ \E t \in TaskIds : GetAccessTokenRead(t)
    \/ \E t \in TaskIds : GetAccessTokenRefreshed(t)
    \/ \E t \in TaskIds : RefreshRead(t)
    \/ \E t \in TaskIds : RefreshExchange(t)
    \/ \E t \in TaskIds : StoreAuthTokensSet(t)
    \/ \E t \in TaskIds : RefreshStored(t)
    \/ \E t \in TaskIds : GetAuthTokenAfter(t)
    \/ \E t \in TaskIds : ProcessContentGotToken(t)
    \/ \E t \in TaskIds : ProcessContentReplied(t)
    \/ \E t \in TaskIds : Settle(t)
    \/ TickFine

SpecRequest == Init /\ [][NextRequest]_vars

-----------------------------------------------------------------------------
\* Properties.

Abs(x) == IF x < 0 THEN -x ELSE x

RefreshFailedError == Err("Token expired and refresh failed")
NoTokenError == Err("No access token found")

\* C1: two getAccessToken calls that overlap on an expired token make one
\* exchange between them: they are never both waiting for an exchange of
\* their own.
C1_OneExchangeForTwoCallers ==
    ~ \E t \in TaskIds, u \in TaskIds :
        /\ t # u
        /\ tasks[t].op = "getAccessToken" /\ ExchangeInFlight(tasks[t])
        /\ tasks[u].op = "getAccessToken" /\ ExchangeInFlight(tasks[u])

\* C2: at any moment at most one refresh exchange is in flight, whichever
\* operations and contexts started them.
C2_AtMostOneRefreshInFlight ==
    Cardinality({t \in TaskIds : ExchangeInFlight(tasks[t])}) <= 1

\* The step at which the caller of refreshAccessToken learns that the
\* refresh failed and has finished dealing with it.
RefreshFailureHandled(t) ==
    \/ GetAccessTokenRefreshed(t) /\ tasks[t].ret.v = NoVal
    \/ RequestTokenRefreshRefreshed(t) /\ tasks[t].ret.v = NoVal
    \/ LoadAuthStateRefreshed(t) /\ tasks[t].ret.v = NoVal
    \/ CheckClear(t)

\* C3: once a failed refresh has been handled, on each path that runs a
\* refresh, no access token is left in the store.
C3_FailedRefreshClearsRecord ==
    [][\A t \in TaskIds : RefreshFailureHandled(t) => store'.access = NoCt]_vars

\* The record in the store is the one a sign-in saved.
SignInRecord ==
    store.access # NoCt /\ store.access.pt = [kind |-> "access_token", n |-> 1]

\* C4: with the alarms firing on schedule and the foreground closed, a token
\* saved by sign-in does not reach its expiry without checkAndRefreshToken
\* having run, and started a refresh, while the token was valid and within
\* the threshold.
C4_CheckedBeforeExpiry ==
    (SignInRecord /\ now >= store.exp) => windowCheck

\* A call of storeAuthTokens has just returned to its caller.
SaveCompleted(tk) ==
    /\ tk.pend.on
    /\ tk.ret.ok
    /\ \/ Finished(tk) /\ tk.op = "storeAuthTokens"
       \/ At(tk, "refreshAccessToken", "stored")
       \/ At(tk, "signInWithGoogle", "stored")

SavedAsAsked(tk) ==
    /\ hasValidToken(store, now)
    /\ Abs(getTokenTimeRemaining(store, now) - tk.pend.expiresIn) <= 1

\* C5 as stated: right after storeAuthTokens completes, for any positive
\* lifetime, the token is valid and the time remaining is within one second
\* of the lifetime given.
C5_ValidAfterSave ==
    \A t \in TaskIds : SaveCompleted(tasks[t]) => SavedAsAsked(tasks[t])

\* C5 amended: the same, for a save that completes less than one second
\* after it was called (the expiry is fixed at the call).
C5_ValidAfterPromptSave ==
    \A t \in TaskIds :
        (SaveCompleted(tasks[t]) /\ now - tasks[t].pend.began < 1000)
            => SavedAsAsked(tasks[t])

\* A save of a one-second token that took some time, but less than a second.
C5_Witness ==
    \E t \in TaskIds :
        /\ SaveCompleted(tasks[t])
        /\ tasks[t].pend.expiresIn = 1
        /\ now > tasks[t].pend.began
        /\ now - tasks[t].pend.began < 1000

ClearCompletes(t) == ClearAuthDataRemove(t) \/ SignOutClear(t) \/ CheckClear(t)

\* C6: when clearAuthData completes, whatever the store held, no token is
\* valid and none is present; and getAccessToken on a store without a token
\* fails with the no-token error, without calling refreshAccessToken.
C6_ClearThenNoToken ==
    [][\A t \in TaskIds :
        /\ ClearCompletes(t) =>
              ~hasValidToken(store', now') /\ store'.access = NoCt
        /\ (GetAccessTokenRead(t) /\ store.access = NoCt) =>
              /\ tasks'[t].ret = NoTokenError
              /\ ~Inside(tasks'[t], "refreshAccessToken")
              /\ ~Inside(tasks'[t], "getAccessToken")]_vars

\* The scheduled check has cleared a record that was valid (it sent
\* 'auth-invalid'), and a getAuthToken made since has failed for want of a
\* token.
C6_Witness ==
    /\ "auth-invalid" \in msgs
    /\ store = EmptyStore
    /\ \E t \in TaskIds :
          /\ At(tasks[t], "getAuthToken", "after")
          /\ tasks[t].ret = NoTokenError

\* C7: getAccessToken on a record that is present but not valid does not
\* return the stored token but goes to refresh it; when the refresh fails
\* (or there is no refresh token) the call fails with the refresh-failed
\* error and the token is not valid afterwards.
C7_ExpiredTokenNeverReturned ==
    [][\A t \in TaskIds :
        /\ (GetAccessTokenRead(t) /\ store.access # NoCt /\ ~hasValidToken(store, now)) =>
              At(tasks'[t], "refreshAccessToken", "read")
        /\ (GetAccessTokenRefreshed(t) /\ tasks[t].ret.v = NoVal) =>
              /\ tasks'[t].ret = RefreshFailedError
              /\ ~hasValidToken(store', now')]_vars

AllHeardNull ==
    \A l \in Listeners : Registered(l) > 0 => heard[l].last = NoVal

\* C8: when getAuthToken fails because the refresh inside getAccessToken
\* failed, currentUser becomes null and every registered listener is called
\* with null.
C8_RefreshFailureNotifiesNull ==
    [][\A t \in TaskIds :
        (GetAuthTokenAfter(t) /\ tasks[t].ret = RefreshFailedError) =>
            /\ currentUser' = NoVal
            /\ \A l \in Listeners :
                  Registered(l) > 0 =>
                      heard'[l].n > heard[l].n /\ heard'[l].last = NoVal]_vars

\* C9: onAuthStateChanged(listener) calls the listener exactly once, within
\* the call, with currentUser as it is then; nobody else is called and
\* currentUser is not changed.
C9_ListenerCalledOnceAtOnce ==
    [][\A l \in Listeners :
        OnAuthStateChanged(l) =>
            /\ heard'[l] = [n |-> heard[l].n + 1, last |-> currentUser]
            /\ \A k \in Listeners \ {l} : heard'[k] = heard[k]
            /\ currentUser' = currentUser]_vars

\* A listener registered after a sign-in has completed: it has been called
\* once, with the user.
C9_Witness ==
    \E l \in Listeners :
        /\ Registered(l) = 1
        /\ heard[l].n = 1
        /\ heard[l].last = [kind |-> "user", n |-> 1]
        /\ heard[l].last = currentUser
        /\ SignInRecord

\* signOut has returned after a revocation that failed.
SignedOutUnrevoked(tk) == Finished(tk) /\ tk.op = "signOut" /\ tk.tok # NoVal

\* C10: signOut whose revocation fails still returns without an error, and
\* then no token is valid, currentUser is null and every listener has been
\* called with null.
C10_SignOutDespiteRevokeFailure ==
    \A t \in TaskIds :
        SignedOutUnrevoked(tasks[t]) =>
            /\ tasks[t].ret.ok
            /\ ~hasValidToken(store, now)
            /\ currentUser = NoVal
            /\ AllHeardNull

\* The scenario of a token saved with a lifetime of 3600 seconds, read 3500
\* seconds later: 100 seconds remain and the token is valid.
ScenarioAfter3500 ==
    LET saved == StorageSet(EmptyStore,
                            StorageData([kind |-> "access_token", n |-> 1], NoVal, NoVal,
                                        [kind |-> "user", n |-> 1], 3600, FreshIv(NoIv), now),
                            THE_KEY)
        later == now + 3500 * 1000
    IN  hasValidToken(saved, later) /\ getTokenTimeRemaining(saved, later) = 100

\* C12: when checkAndRefreshToken reaches its threshold test on a valid
\* token, it calls refreshAccessToken if less than 300 seconds are left to
\* the expiry and returns without a refresh if 300 seconds or more are left.
C12_RefreshBelowThreshold ==
    [][/\ ScenarioAfter3500
       /\ \A t \in TaskIds :
            (CheckRemaining(t) /\ hasValidToken(store, now)) =>
                IF store.exp - now < 300 * 1000
                THEN At(tasks'[t], "refreshAccessToken", "read")
                ELSE ~Inside(tasks'[t], "refreshAccessToken")
                     /\ ~Inside(tasks'[t], "checkAndRefreshToken")]_vars

\* A periodic check has started a refresh of a valid sign-in token that
\* had between 1 and 299 seconds left.
C12_Witness ==
    \E t \in TaskIds :
        /\ tasks[t].op = "handleTokenAlarm"
        /\ At(tasks[t], "refreshAccessToken", "read")
        /\ SignInRecord
        /\ hasValidToken(store, now)
        /\ getTokenTimeRemaining(store, now) \in 1 .. 299

\* refreshAccessToken has just saved the answer of a successful exchange.
RefreshJustStored(tk) ==
    At(tk, "refreshAccessToken", "stored") /\ tk.pend.on /\ tk.ret.ok

\* What a reader holding the context's key finds in a field of the record.
Stored(field, c) == decryptData(field, store.iv, ENCRYPTION_KEY[c])

\* C13: once a successful refresh has saved, the record is the one of the
\* exchange response: its access token, its expiry (the response's lifetime
\* from the moment it arrived), its profile and id token, and its refresh
\* token when it carries one (the simulated endpoint always does; the old
\* refresh token is what refreshAccessToken passes on otherwise).
C13_RefreshReplacesRecord ==
    \A t \in TaskIds :
        RefreshJustStored(tasks[t]) =>
            LET tk == tasks[t]
                response == SimResponse(tk.pend.began)
            IN  /\ Stored(store.access, tk.ctx) = Ok(response.accessToken)
                /\ store.exp = tk.pend.began + response.expiresIn * 1000
                /\ Stored(store.user, tk.ctx) = Ok(response.userData)
                /\ Stored(store.idt, tk.ctx) = Ok(response.idToken)
                /\ response.refreshToken # NoVal =>
                      Stored(store.refresh, tk.ctx) = Ok(response.refreshToken)
                /\ response.refreshToken = NoVal =>
                      Stored(store.refresh, tk.ctx) = Ok(tk.pend.data.refresh)

\* A refresh has saved a record whose tokens are not those it started from.
C13_Witness ==
    \E t \in TaskIds :
        /\ RefreshJustStored(tasks[t])
        /\ store.access.pt.kind = "new_access_token"
        /\ store.refresh.pt.kind = "new_refresh_token"
        /\ hasValidToken(store, now)

\* C14: getAccessToken on a valid record returns the stored access token
\* without calling refreshAccessToken, and the stored access token is always
\* the one of the latest completed save (only a save or a clear changes it);
\* when the refresh it called on an expired record has succeeded, it returns
\* the new access token, which is the one in the store, and the record is
\* valid.
C14_GetAccessTokenReturnsStored ==
    [][\A t \in TaskIds :
        /\ (GetAccessTokenRead(t) /\ hasValidToken(store, now)) =>
              /\ tasks'[t].ret = Ok(store.access.pt)
              /\ ~Running(tasks'[t])
        /\ (StoreAuthTokensSet(t) /\ store' # store) =>
              store'.access.pt = tasks[t].pend.data.access
        /\ store'.access # store.access =>
              \E u \in TaskIds : StoreAuthTokensSet(u) \/ ClearCompletes(u)
        /\ (GetAccessTokenRefreshed(t) /\ tasks[t].ret.v # NoVal) =>
              /\ tasks'[t].ret = Ok(tasks[t].ret.v)
              /\ tasks[t].ret.v.kind = "new_access_token"
              /\ decryptData(store'.access, store'.iv, ENCRYPTION_KEY[tasks[t].ctx])
                    = tasks'[t].ret
              /\ hasValidToken(store', now')]_vars

\* getAccessToken has returned the token of the refresh it made, the one the
\* store now holds.
C14_Witness ==
    \E t \in TaskIds :
        /\ tasks[t].op = "getAccessToken"
        /\ Finished(tasks[t])
        /\ tasks[t].ret.ok
        /\ tasks[t].ret.v.kind = "new_access_token"
        /\ store.access.pt = tasks[t].ret.v
        /\ hasValidToken(store, now)

\* C15: when a save completes, the record holds only what that save was
\* given: saved without a refresh token (or without an id token), no refresh
\* token (no id token) is in storage.
C15_SaveReplacesRecord ==
    \A t \in TaskIds :
        SaveCompleted(tasks[t]) =>
            /\ tasks[t].pend.data.refresh = NoVal => store.refresh = NoCt
            /\ tasks[t].pend.data.idt = NoVal => store.idt = NoCt

\* C16: when the view handles a 'token-refreshed' message, the controller
\* reads the store again (a loadAuthState is started), or currentUser is
\* already the stored profile and every registered listener is called with
\* it.
C16_RefreshedMessageReloads ==
    [][HandleTokenRefreshed =>
        \/ \E t \in TaskIds :
              tasks[t] = IdleTask /\ Inside(tasks'[t], "loadAuthState")
        \/ /\ currentUser' = getUserData(store', ENCRYPTION_KEY'["fg"])
           /\ \A l \in Listeners :
                 Registered(l) > 0 =>
                     heard'[l].n > heard[l].n /\ heard'[l].last = currentUser']_vars

\* C17: once checkAndRefreshToken has cleared the record and sent
\* 'auth-invalid', the view comes to a state where currentUser is null and
\* every registered listener has last been called with null.
C17_AuthInvalidReachesView ==
    ("auth-invalid" \in msgs) ~> (currentUser = NoVal /\ AllHeardNull)

\* The signOut started by the 'auth-invalid' handler has returned: a listener
\* that was registered has been called again, with null.
C17_Witness ==
    \E t \in TaskIds, l \in Listeners :
        /\ tasks[t].op = "handleBackgroundMessages"
        /\ Finished(tasks[t])
        /\ store = EmptyStore
        /\ currentUser = NoVal
        /\ Registered(l) > 0
        /\ heard[l].n >= 2
        /\ heard[l].last = NoVal

\* C18: a check whose refresh has failed makes no second exchange; and at the
\* next tick of the periodic alarm after the failure (the failure was
\* reported and the store has not been written since), the check goes on to
\* the refresh instead of returning.
C18_FailedRefreshRetriedAtNextTick ==
    [][\A t \in TaskIds :
        /\ (CheckRefreshed(t) /\ tasks[t].ret.v = NoVal) =>
              ~Inside(tasks'[t], "refreshAccessToken")
        /\ (CheckClear(t) \/ Settle(t)) => ~Inside(tasks'[t], "refreshAccessToken")
        /\ ( /\ CheckValid(t)
             /\ tasks[t].op = "handleTokenAlarm"
             /\ "auth-invalid" \in msgs
             /\ store = EmptyStore ) =>
              Inside(tasks'[t], "checkAndRefreshToken")]_vars

\* The one-shot alarm is set to five minutes before the expiry of the record
\* (getTokenTimeRemaining counts whole seconds, so up to a second earlier),
\* and the periodic alarm exists.
WakeBeforeExpiry(a, s) ==
    /\ a["token-refresh-alarm"] # NoAlarm
    /\ a["manual-token-refresh"] # NoAlarm
    /\ s.exp - a["manual-token-refresh"] >= REFRESH_THRESHOLD * 1000
    /\ s.exp - a["manual-token-refresh"] < (REFRESH_THRESHOLD + 1) * 1000

\* C19: when a sign-in that stored its tokens completes, and when a check
\* whose refresh stored new tokens completes, the one-shot alarm is set to
\* five minutes before the expiry of the record just written and the
\* periodic alarm exists.
C19_WakeAfterEveryWrite ==
    [][\A t \in TaskIds :
        /\ (SignInScheduled(t) /\ SignInRecord) =>
              WakeBeforeExpiry(alarms', store')
        /\ (CheckRefreshed(t) /\ tasks[t].ret.v # NoVal) =>
              WakeBeforeExpiry(alarms', store')]_vars

\* C20: when an alarm fires, the periodic 'token-refresh-alarm' or the
\* one-shot 'manual-token-refresh' of setupTokenRefresh, checkAndRefreshToken
\* is started.
C20_EveryWakeRunsCheck ==
    [][(HandleOtherAlarm \/ \E u \in TaskIds : HandleTokenAlarm(u)) =>
        \E t \in TaskIds :
            /\ tasks[t] = IdleTask
            /\ At(tasks'[t], "checkAndRefreshToken", "valid")]_vars

\* A step of the signInWithGoogle call of task t.
SignInStep(t) == Inside(tasks[t], "signInWithGoogle") /\ tasks'[t] # tasks[t]

\* The call has stored its tokens and has not returned yet.
SignInWrote(tk) ==
    \/ At(tk, "signInWithGoogle", "stored") /\ tk.ret.ok
    \/ Inside(tk, "setupTokenRefresh")
    \/ At(tk, "signInWithGoogle", "scheduled")

\* C11: signInWithGoogle changes the store only by its completed save, and
\* once it has saved it can only go on to return the profile; it changes
\* currentUser and calls the listeners only in the step in which it returns.
\* When it returns a profile, it has saved the tokens (or found the profile
\* of a saved record), currentUser is that profile and every registered
\* listener has been called with it. When it
\* fails, it fails with the authentication error, it has not saved, and the
\* failing step leaves the store, currentUser and the listeners as they were.
C11_SignInAllOrNothing ==
    [][\A t \in TaskIds :
        SignInStep(t) =>
            /\ store' # store => SignInWrote(tasks'[t])
            /\ SignInWrote(tasks[t]) =>
                  \/ SignInWrote(tasks'[t])
                  \/ Finished(tasks'[t]) /\ tasks'[t].ret.ok
            /\ ~Finished(tasks'[t]) => UNCHANGED <<currentUser, heard>>
            /\ (Finished(tasks'[t]) /\ tasks'[t].ret.ok) =>
                  /\ tasks'[t].ret.v # NoVal
                  /\ \/ SignInWrote(tasks[t])
                     \/ At(tasks[t], "signInWithGoogle", "cached") /\ store.user # NoCt
                  /\ currentUser' = tasks'[t].ret.v
                  /\ \A l \in Listeners :
                        Registered(l) > 0 =>
                            /\ heard'[l].n = heard[l].n + 1
                            /\ heard'[l].last = tasks'[t].ret.v
            /\ (Finished(tasks'[t]) /\ ~tasks'[t].ret.ok) =>
                  /\ tasks'[t].ret = AuthError
                  /\ ~SignInWrote(tasks[t])
                  /\ UNCHANGED <<store, currentUser, heard>>]_vars

\* A sign-in whose storeAuthTokens has thrown is about to fail, with a
\* listener registered and a record of an earlier session in storage.
C11_Witness ==
    \E t \in TaskIds, l \in Listeners :
        /\ At(tasks[t], "signInWithGoogle", "stored")
        /\ ~tasks[t].ret.ok
        /\ Registered(l) > 0
        /\ store \in InitStores \ {EmptyStore}

\* The step leaves checkAndRefreshToken without a refresh, a write or a
\* message.
ReturnsIdle(t) ==
    /\ ~Inside(tasks'[t], "checkAndRefreshToken")
    /\ ~Inside(tasks'[t], "refreshAccessToken")
    /\ UNCHANGED <<store, msgs>>

\* C21: checkAndRefreshToken that finds no valid token returns at once, and
\* one that finds a valid token with 300 seconds or more left returns after
\* reading the time remaining: in both cases the record is unchanged,
\* refreshAccessToken is not called and no message is sent. The validity
\* test itself changes neither the record nor the messages.
C21_IdleCheckChangesNothing ==
    [][\A t \in TaskIds :
        /\ CheckValid(t) => UNCHANGED <<store, msgs>>
        /\ (CheckValid(t) /\ ~hasValidToken(store, now)) => ReturnsIdle(t)
        /\ ( /\ CheckRemaining(t)
             /\ hasValidToken(store, now)
             /\ getTokenTimeRemaining(store, now) >= 300 ) => ReturnsIdle(t)]_vars

\* The periodic alarm has fired for at least the second time, and the check
\* has returned on a valid token with exactly 300 seconds left, nothing sent.
C21_Witness ==
    \E t \in TaskIds :
        /\ tasks[t].op = "handleTokenAlarm"
        /\ Finished(tasks[t])
        /\ now >= 2 * TOKEN_CHECK_INTERVAL * MS_PER_MINUTE
        /\ hasValidToken(store, now)
        /\ getTokenTimeRemaining(store, now) = 300
        /\ msgs = {}

\* C22: the 'refresh-token' message goes straight to refreshAccessToken,
\* without the threshold test, and refreshAccessToken issues the exchange
\* whenever a refresh token is stored and can be decrypted, whatever time is
\* left to the expiry.
C22_ManualRefreshBypassesThreshold ==
    [][\A t \in TaskIds :
        /\ (tasks[t] = IdleTask /\ tasks'[t].op = "refresh-token") =>
              At(tasks'[t], "refreshAccessToken", "read")
        /\ tasks[t].op = "refresh-token" =>
              ~Inside(tasks'[t], "checkAndRefreshToken")
        /\ ( /\ RefreshRead(t)
             /\ tasks[t].op = "refresh-token"
             /\ store.refresh # NoCt
             /\ CanDecrypt(store.refresh, store.iv, ENCRYPTION_KEY[tasks[t].ctx]) ) =>
              ExchangeInFlight(tasks'[t])]_vars

\* A manual refresh has its exchange in flight while the token is valid
\* with more than 300 seconds left.
C22_Witness ==
    \E t \in TaskIds :
        /\ tasks[t].op = "refresh-token"
        /\ ExchangeInFlight(tasks[t])
        /\ hasValidToken(store, now)
        /\ getTokenTimeRemaining(store, now) > 300

\* A step of the loadAuthState call of task t.
LoadStep(t) == Inside(tasks[t], "loadAuthState") /\ tasks'[t] # tasks[t]

\* loadAuthState has adopted the profile of a valid record and has not
\* returned yet.
LoadAdopted(tk) ==
    Inside(tk, "setupTokenRefresh") \/ At(tk, "loadAuthState", "scheduled")

\* The step makes the stored profile currentUser and calls every registered
\* listener with it.
AdoptsStoredProfile(t) ==
    /\ currentUser' # NoVal
    /\ currentUser' = getUserData(store', ENCRYPTION_KEY'[tasks[t].ctx])
    /\ \A l \in Listeners :
          Registered(l) > 0 =>
              heard'[l].n = heard[l].n + 1 /\ heard'[l].last = currentUser'

\* C23: loadAuthState returns true or false and never throws. It returns
\* true only having adopted the stored profile (currentUser set to it and
\* the listeners called with it): after the validity test on a valid
\* record, or after the one refresh it makes on an expired record has
\* succeeded. It returns false without having changed currentUser or called
\* a listener, and it never calls refreshAccessToken a second time.
C23_LoadReturnsWhetherAdopted ==
    [][\A t \in TaskIds :
        LoadStep(t) =>
            /\ Finished(tasks'[t]) =>
                  tasks'[t].ret \in {Ok(True), Ok(False)}
            /\ (~LoadAdopted(tasks[t]) /\ LoadAdopted(tasks'[t])) =>
                  AdoptsStoredProfile(t)
            /\ LoadAdopted(tasks[t]) =>
                  \/ LoadAdopted(tasks'[t]) /\ UNCHANGED <<currentUser, heard>>
                  \/ tasks'[t].ret = Ok(True) /\ Finished(tasks'[t])
                       /\ UNCHANGED <<currentUser, heard>>
            /\ (~LoadAdopted(tasks[t]) /\ Finished(tasks'[t])
                    /\ tasks'[t].ret = Ok(True)) =>
                  /\ At(tasks[t], "loadAuthState", "newUser")
                  /\ AdoptsStoredProfile(t)
            /\ (Finished(tasks'[t]) /\ tasks'[t].ret = Ok(False)) =>
                  /\ ~LoadAdopted(tasks[t])
                  /\ UNCHANGED <<currentUser, heard>>
            /\ (~LoadAdopted(tasks'[t]) /\ ~Finished(tasks'[t])) =>
                  UNCHANGED <<currentUser, heard>>
            /\ LoadAuthStateRefreshed(t) =>
                  ~Inside(tasks'[t], "refreshAccessToken")]_vars

\* C24: in every context, getUserData answers the stored profile when one is
\* stored and can be decrypted with the key the context holds, and null in
\* every other case (none stored, key not loaded, decryption failing); a
\* sign-in that gets null for the profile of a valid record goes on to the
\* consent flow.
C24_GetUserDataNeverThrows ==
    [][\A c \in Contexts :
        LET userData == getUserData(store, ENCRYPTION_KEY[c])
            readable == /\ store.user # NoCt
                        /\ decryptData(store.user, store.iv, ENCRYPTION_KEY[c]).ok
        IN  /\ readable => userData = store.user.pt /\ userData # NoVal
            /\ ~readable => userData = NoVal
            /\ \A t \in TaskIds :
                  (SignInCached(t) /\ tasks[t].ctx = c /\ ~readable) =>
                      /\ At(tasks'[t], "signInWithGoogle", "consent")
                      /\ UNCHANGED <<currentUser, heard>>]_vars

\* A sign-in has found a valid record whose profile it could not decrypt
\* (the key of the view is not loaded) and has gone on to the consent flow.
C24_Witness ==
    \E t \in TaskIds :
        /\ At(tasks[t], "signInWithGoogle", "consent")
        /\ hasValidToken(store, now)
        /\ store.user # NoCt
        /\ ENCRYPTION_KEY[tasks[t].ctx] = 0

\* C25: when getAccessToken finds a token that is not expired and cannot
\* decrypt it, it fails as for a missing token and the record is cleared.
C25_DecryptFailureIsMissingToken ==
    [][\A t \in TaskIds :
        ( /\ GetAccessTokenRead(t)
          /\ store.access # NoCt
          /\ ~(store.exp # NoExp /\ now > store.exp)
          /\ ~decryptData(store.access, store.iv, ENCRYPTION_KEY[tasks[t].ctx]).ok ) =>
            /\ tasks'[t].ret = NoTokenError
            /\ store' = EmptyStore]_vars

\* C26: a record with an access token and no expiration is read as absent:
\* hasValidToken is false on it and getAccessToken fails on it as it does
\* when no token is stored, never returning the stored token.
C26_NoExpirationIsAbsent ==
    [][\A t \in TaskIds :
        (GetAccessTokenRead(t) /\ store.access # NoCt /\ store.exp = NoExp) =>
            /\ ~hasValidToken(store, now)
            /\ tasks'[t].ret = NoTokenError]_vars

\* C27: decrypting what encryptData made of a text, under the same key and
\* the same iv, gives the text back; under another key or another iv it
\* fails with an error and gives no text.
C27_CodecRoundTrip ==
    (codec.pc = "decrypted") =>
        IF codec.decryptKey = codec.key /\ codec.decryptIv = codec.iv
        THEN codec.out = Ok(codec.data)
        ELSE ~codec.out.ok

\* The replies processContent must report as failures: success:false, a
\* status other than 200, or a 200 body that is not JSON.
FailureReply(response) ==
    \/ response.kind = "failure"
    \/ response.kind = "data" /\ response.status # 200
    \/ response.kind = "data" /\ response.status = 200 /\ ~JSON_parse(response.body).ok

\* C28: processContent never rejects; on a failure reply it calls
\* console.error and showError and does not call showResult; it calls
\* showResult only for a 200 reply whose body parses as JSON.
C28_FailuresShownNeverThrown ==
    /\ popup.run.settled # "rejected"
    /\ (popup.run.settled = "fulfilled" /\ FailureReply(popup.run.response)) =>
          /\ popup.run.showError = 1
          /\ popup.run.consoleError >= 1
          /\ popup.run.showResult = 0
    /\ (popup.run.showResult > 0) =>
          /\ popup.run.response.kind = "data"
          /\ popup.run.response.status = 200
          /\ JSON_parse(popup.run.response.body).ok

C28_Witness ==
    /\ popup.run.settled = "fulfilled"
    /\ popup.run.response.kind = "data"
    /\ popup.run.response.status = 200
    /\ popup.run.response.body = "{invalid json"
    /\ popup.run.showError = 1
    /\ popup.dom.errorText = <<"Error: ", "Invalid response format">>

\* C29: a run of processContent that ended in showResult sent two messages
\* to the relay and called console.error not once.
C29_SuccessSendsTwoMessages ==
    (popup.run.settled = "fulfilled" /\ popup.run.showResult = 1) =>
        /\ popup.run.sendMessage = 2
        /\ popup.run.consoleError = 0

\* C30: after showResult the status and the error are hidden and the result
\* is shown; after showError(m) the status and the result are hidden, the
\* error is shown with the text 'Error: m' and the retry button is shown.
C30_OneOfResultAndError ==
    /\ (popup.last.fn = "showResult") =>
          /\ popup.dom.status = "none"
          /\ popup.dom.result = "block"
          /\ popup.dom.error = "none"
    /\ (popup.last.fn = "showError") =>
          /\ popup.dom.status = "none"
          /\ popup.dom.result = "none"
          /\ popup.dom.error = "block"
          /\ popup.dom.errorText = <<"Error: ">> \o popup.last.arg
          /\ popup.dom.retry = "block"

C30_Witness ==
    /\ popup.last.fn = "showResult"
    /\ popup.dom.errorText = <<"Error: ">> \o SessionExpired
    /\ popup.dom.resultContent # <<>>

\* C31: calling the unsubscribe handle of a listener removes that listener
\* and no other; a listener that is not registered is never called; and
\* every registered listener is called with the new user whenever the
\* current user changes.
C31_UnsubscribedHearsNothing ==
    [][/\ \A l \in Subscribers :
            Unsubscribe(l) =>
                /\ Registered(l)' = 0
                /\ \A k \in Subscribers \ {l} : Registered(k)' = Registered(k)
       /\ \A l \in Subscribers :
            (Registered(l) = 0 /\ Registered(l)' = 0) => heard'[l] = heard[l]
       /\ (currentUser' # currentUser) =>
            \A k \in Subscribers :
               Registered(k) > 0 =>
                   /\ heard'[k].n = heard[k].n + Registered(k)
                   /\ heard'[k].last = currentUser']_vars

C31_Witness ==
    /\ Registered(1) = 0
    /\ Registered(2) > 0
    /\ heard[1].n > 0
    /\ heard[2].n > heard[1].n
    /\ heard[1].last # heard[2].last

\* C32: getAccessToken returns the stored token without refreshing exactly
\* when hasValidToken is true of the record, at every instant, the instant
\* of the expiry included.
C32_ReadersAgreeOnExpiry ==
    [][\A t \in TaskIds :
        (GetAccessTokenRead(t) /\ store.access # NoCt) =>
            ( ( /\ Len(tasks'[t].stack) < Len(tasks[t].stack)
                /\ tasks'[t].ret = Ok(store.access.pt) )
              <=> hasValidToken(store, now) )]_vars

\* C33: checkAndRefreshToken that finds a record with an access token past
\* its expiry and a refresh token goes on to call refreshAccessToken.
C33_ExpiredRecordIsRefreshed ==
    [][\A t \in TaskIds :
        ( /\ CheckValid(t)
          /\ store.access # NoCt
          /\ store.exp # NoExp /\ now >= store.exp
          /\ store.refresh # NoCt ) =>
              \/ Inside(tasks'[t], "refreshAccessToken")
              \/ At(tasks'[t], "checkAndRefreshToken", "remaining")]_vars

\* C34: every ciphertext field present in the stored record (access token,
\* refresh token, ID token, user data) was encrypted under the nonce the
\* record holds, so decryptData opens it with that nonce.
StoredCiphertexts == {store.access, store.refresh, store.idt, store.user} \ {NoCt}

C34_FieldsUnderStoredNonce ==
    \A ct \in StoredCiphertexts :
        /\ ct.iv = store.iv
        /\ decryptData(ct, store.iv, THE_KEY).ok

\* C35: once signOut has returned and no refreshAccessToken call is still
\* running, a refresh whose exchange was in flight when signOut ran has not
\* put a record back: unless a sign-in has saved a token of its own since,
\* the store holds no access token, no token is valid and currentUser is
\* null.
C35_SignOutOutlastsRefresh ==
    \A u \in TaskIds :
        ( /\ Finished(tasks[u]) /\ tasks[u].op = "signOut"
          /\ \A t \in TaskIds : ~Inside(tasks[t], "refreshAccessToken")
          /\ store.access.pt.kind # "access_token" ) =>
            /\ store.access = NoCt
            /\ ~hasValidToken(store, now)
            /\ currentUser = NoVal

\* C36: a signOut call never has a token exchange in flight and never calls
\* storeAuthTokens, whether the stored token is valid, expired or absent.
C36_SignOutNeverRefreshes ==
    \A t \in TaskIds :
        Inside(tasks[t], "signOut") =>
            /\ ~ExchangeInFlight(tasks[t])
            /\ ~Inside(tasks[t], "storeAuthTokens")

\* A step of the background that sends the message.
Sends(action) ==
    \E t \in TaskIds :
        \/ action = "auth-invalid" /\ CheckClear(t)
        \/ /\ action = "token-refreshed"
           /\ tasks[t].ret.v # NoVal
           /\ CheckRefreshed(t) \/ RequestTokenRefreshRefreshed(t)

\* C37: a notification of the background follows the store update it
\* reports. When 'auth-invalid' is sent the record has been cleared, and
\* when 'token-refreshed' is sent the store holds the record the refresh
\* wrote (its access token, valid, under the stored nonce); a message is
\* never put in flight by any other step.
C37_NotificationFollowsStore ==
    [][/\ Sends("auth-invalid") =>
             store' = EmptyStore /\ ~hasValidToken(store', now')
       /\ Sends("token-refreshed") =>
             /\ store' = store
             /\ \E t \in TaskIds : decryptData(store.access, store.iv, THE_KEY) = Ok(tasks[t].ret.v)
             /\ store.access.pt.kind = "new_access_token"
             /\ hasValidToken(store, now)
       /\ (msgs' \ msgs # {}) =>
             \E action \in msgs' \ msgs : Sends(action)]_vars

\* Both notifications are in flight: a refresh asked for by message has
\* succeeded and the refresh of the scheduled check has failed.
C37_Witness ==
    /\ msgs = {"token-refreshed", "auth-invalid"}
    /\ store = EmptyStore

RunsCodec(t) ==
    \/ StoreAuthTokensSet(t)
    \/ GetAccessTokenRead(t) /\ store.access # NoCt /\ ~(store.exp # NoExp /\ now > store.exp)
    \/ RefreshRead(t) /\ store.refresh # NoCt

\* C39: whenever encryptData or decryptData runs in a context, the key of
\* that context has been loaded, so a save started in a context whose
\* module was loaded before the key was there still writes its record.
C39_KeyLoadedBeforeUse ==
    [][\A t \in TaskIds :
        /\ RunsCodec(t) => ENCRYPTION_KEY[tasks[t].ctx] # 0
        /\ StoreAuthTokensSet(t) =>
              /\ tasks'[t].ret.ok
              /\ store' = StorageSet(store, tasks[t].pend.data, THE_KEY)]_vars

====
